---- MODULE Spec2Model ----
(***************************************************************************)
(* Model of the in-memory pub/sub service tarun-mm/plivo-pub-sub.          *)
(*                                                                         *)
(* Shared objects: the engine (topic registry, client registry, shutdown   *)
(* channel, registry lock), topics (subscriber map, ring buffer, message   *)
(* count) and subscribers (buffered channel, closed flag, transport).      *)
(* Goroutines: one HandleWebSocket/readPump goroutine and one WritePump    *)
(* goroutine per connection, the goroutines started by `go s.Close()`,     *)
(* the goroutine of readPump's auth gate, one goroutine for the request in *)
(* hand of each client of the control surface, and the supervisor of the   *)
(* process (Shutdown).  One action is one critical section or one channel  *)
(* operation of the source; statements that touch only goroutine-local     *)
(* state are folded into the step that precedes them.                      *)
(*                                                                         *)
(* Credential validation is disabled unless the run enables it             *)
(* (AuthEnabled defaults to false).                                        *)
(* The replay loop's `&histMsg` is taken with per-iteration loop variables *)
(* (Go >= 1.22; the build image is golang:1.23), so every replay Event     *)
(* carries its own message.                                                *)
(***************************************************************************)
EXTENDS Integers, Sequences, FiniteSets, TLC

(* ------------------------------ bounds -------------------------------- *)

\* Number of connections accepted over the life of the process.
NConns == 3
\* cfg.SubscriberQueue: capacity Q of every subscriber's MessageChan.
queueSize == 2
\* cfg.RingBufferSize: capacity R of every topic's ring buffer.
ringBufferSize == 2
\* Heartbeat ticks, over all write pumps.
MaxTicks == 1
\* Faults of the environment, over the whole run: a read error on an open
\* transport (the peer disconnects, the read deadline passes), a write that
\* fails on an open transport, the interrupt signal.
MaxFaults == 1
\* Topic objects created over the life of the process.
MaxTopics == 2

\* Clients of the control surface.  Each sends its requests one after the
\* other, the next one when the last one is answered; net/http serves
\* every request on a goroutine of its own, so the requests of different
\* clients are served at the same time.
NRests == 2

Conns == 1..NConns
\* The goroutines serving the requests of the control surface, one for the
\* request in hand of each of its clients.
Rests == (NConns + 1)..(NConns + NRests)
\* The goroutine readPump starts to read the first frame of connection c
\* when credential validation is enabled.
AuthGo(c) == NConns + NRests + c
AuthGos == {AuthGo(c) : c \in Conns}
Procs == Conns \cup Rests \cup AuthGos
ClientIds == 1..NConns
TopicNames == {"orders", "alerts"}
TopicObjs == 1..MaxTopics
LastNs == 0..(ringBufferSize + 1)

NoRid == 0

(* ------------------------------ frames -------------------------------- *)
(* models.ServerMessage without its timestamp.  `live` and `seq` are       *)
(* bookkeeping: live tells a fan-out Event from a replay Event, seq is the *)
(* position of the frame in the subscriber's enqueue log.                  *)

ServerMessage(type, rid, topic, msg, code, status, info, live) ==
    [type |-> type, rid |-> rid, topic |-> topic, msg |-> msg, code |-> code,
     status |-> status, info |-> info, live |-> live, seq |-> 0]

AckMsg(rid, topic) == ServerMessage("ack", rid, topic, 0, "", "ok", "", FALSE)
AuthenticatedMsg(rid) ==
    ServerMessage("ack", rid, "", 0, "", "authenticated", "", FALSE)
PongMsg(rid) == ServerMessage("pong", rid, "", 0, "", "", "", FALSE)
ErrorMsg(rid, code) == ServerMessage("error", rid, "", 0, code, "", "", FALSE)
LiveEvent(topic, msg) ==
    ServerMessage("event", NoRid, topic, msg, "", "", "", TRUE)
ReplayEvent(topic, msg) ==
    ServerMessage("event", NoRid, topic, msg, "", "", "", FALSE)
SlowConsumerMsg ==
    ServerMessage("error", NoRid, "", 0, "SLOW_CONSUMER", "", "", FALSE)
Heartbeat == ServerMessage("info", NoRid, "", 0, "", "", "ping", FALSE)
TopicDeletedMsg(topic) ==
    ServerMessage("info", NoRid, topic, 0, "", "", "topic_deleted", FALSE)
NoFrame == ServerMessage("", NoRid, "", 0, "", "", "", FALSE)

\* Client frames (models.ClientMessage).  `mid` is the message.id of a
\* publish frame by its kind: "uuid" a string uuid.Parse accepts, "text" a
\* non-empty string it rejects, "empty" the empty string, "none" a frame
\* without message.  `key` is the api_key of an auth frame.
ClientMessage(type, topic, lastN, mid, key) ==
    [type |-> type, topic |-> topic, lastN |-> lastN, mid |-> mid,
     key |-> key, id |-> 0]

Subscribe(t, n) == ClientMessage("subscribe", t, n, "none", <<>>)
Unsubscribe(t) == ClientMessage("unsubscribe", t, 0, "none", <<>>)
PublishWith(t, mid) == ClientMessage("publish", t, 0, mid, <<>>)
Publish(t) == PublishWith(t, "uuid")
Ping == ClientMessage("ping", "", 0, "none", <<>>)
AuthFrame(key) == ClientMessage("auth", "", 0, "none", key)
\* A frame whose type the server does not know.
UnknownFrame == ClientMessage("status", "", 0, "none", <<>>)

\* uuid.Parse returns no error.
\* A check that takes any text that is there for a UUID.
IsUUIDAnyText(mid) == mid \in {"uuid", "text"}

IsUUID(mid) == mid = "uuid"

\* The upgrade request of a connection, with its client_id query parameter.
Connect(id) ==
    [ClientMessage("connect", "", 0, "none", <<>>) EXCEPT !.id = id]

\* Requests of the control surface: POST /topics and DELETE /topics/:name.
\* The topic of a POST is the name in its body; it is "" when the body has
\* no name, or an empty one, or is no JSON object, or is not there.
CreateCall(t) == ClientMessage("create", t, 0, "none", <<>>)
DeleteCall(t) == ClientMessage("delete", t, 0, "none", <<>>)
ListCall == ClientMessage("list", "", 0, "none", <<>>)
StatsCall == ClientMessage("stats", "", 0, "none", <<>>)
HealthCall == ClientMessage("health", "", 0, "none", <<>>)

\* The request with the given value in its X-API-Key header.
WithKey(call, key) == [call EXCEPT !.key = key]

(* ----------------------------- credentials ---------------------------- *)

\* A key is a string, kept as the sequence of its characters; <<>> is the
\* empty string, which is also what a header or field that is absent reads
\* as.

\* unicode.IsSpace: the white-space characters of Latin-1 (tab, line
\* feed, vertical tab, form feed, carriage return, space, next line,
\* no-break space) and those of the category Z and the property
\* Pattern_White_Space beyond it.  A character without an escape in a
\* string is written by its code point.
WhiteSpace ==
    {"\t", "\n", "U+000B", "\f", "\r", " ", "U+0085", "U+00A0", "U+1680",
     "U+2000", "U+2001", "U+2002", "U+2003", "U+2004", "U+2005", "U+2006",
     "U+2007", "U+2008", "U+2009", "U+200A", "U+2028", "U+2029", "U+202F",
     "U+205F", "U+3000"}

IsSpace(ch) == ch \in WhiteSpace

\* strings.TrimSpace.
RECURSIVE TrimLeft(_)
TrimLeft(k) ==
    IF k # <<>> /\ IsSpace(Head(k)) THEN TrimLeft(Tail(k)) ELSE k

RECURSIVE TrimRight(_)
TrimRight(k) ==
    IF k # <<>> /\ IsSpace(k[Len(k)])
    THEN TrimRight(SubSeq(k, 1, Len(k) - 1))
    ELSE k

TrimSpace(k) == TrimRight(TrimLeft(k))

\* NewAPIKeyValidator: the configured keys, trimmed, the empty ones left
\* out.
NewAPIKeyValidator(keys, enabled) ==
    [enabled |-> enabled, validKeys |-> {TrimSpace(k) : k \in keys} \ {<<>>}]

\* A response of the control surface.
Response(call, status, code, body) ==
    [call |-> call.type, topic |-> call.topic, status |-> status,
     code |-> code, body |-> body]

\* What a subscribe or unsubscribe may change, as it was when the request
\* was read: the topic object registered under the name, its subscriber
\* map, its history, and the topic set of the connection's subscriber.
NoPre == [o |-> 0, subs |-> <<>>, hist |-> <<>>, count |-> 0, topics |-> {}]

\* A client request in the hands of its handler.  `base`, `after`, `unsub`,
\* `gone`, `pre` and `paired` are bookkeeping: base is the length of the
\* connection's enqueue log when the request was read, after holds the
\* request ids of the subscribes whose Ack was already enqueued, with
\* replay still under way, at that moment, unsub the connections whose
\* unsubscribe from the topic of the request had completed with its Ack
\* enqueued, and gone tells that a DeleteTopic of that topic had returned
\* with no CreateTopic of the name after it.
\* pre is the state a subscribe or unsubscribe found; on an unsubscribe
\* that directly follows a served subscribe to the same topic (paired) it
\* is the state that subscribe found.  since, on a subscribe, is the id of
\* the first message whose publish frame is read after it; racing are the
\* messages of the publishes that were in progress when its frame was
\* read, and read is the number of messages the topic had stored when
\* GetLastN read the history.
NoOp ==
    [type |-> "", topic |-> "", lastN |-> 0, mid |-> "none", msg |-> 0,
     rid |-> NoRid, base |-> 0, after |-> {}, unsub |-> {}, gone |-> FALSE,
     pre |-> NoPre, paired |-> FALSE, key |-> <<>>, since |-> 0,
     racing |-> {}, read |-> 0]

\* No response is waiting to be written.
NoResp == [call |-> "", topic |-> "", status |-> 0, code |-> "", body |-> {}]

\* No DeleteTopic of the topic object has returned.
NoDel == [returned |-> FALSE, members |-> {}]

\* Locals of a HandleWebSocket goroutine, or of the goroutine of a request
\* of the control surface, with no request in hand.
IdleLocals(pc) ==
    [pc |-> pc, op |-> NoOp, tref |-> 0, sref |-> 0, left |-> {},
     history |-> <<>>, hidx |-> 0, to |-> 0, frame |-> NoFrame, ret |-> "",
     members |-> {}, err |-> "", body |-> {}, count |-> 0, resp |-> NoResp]

(* ------------------------------- state -------------------------------- *)

VARIABLES
    \* PubSubEngine
    engTopics,      \* Topics: topic name -> topic object, 0 when absent
    engClients,     \* Clients: client id -> subscriber, 0 when absent
    shuttingDown,   \* the shutdown channel is closed
    emuHeld,        \* e.mu is write-locked by Shutdown
    \* Topic
    tName,          \* Name
    tSubs,          \* Subscribers: client id -> subscriber, 0 when absent
    tCount,         \* MessageCount
    rbMessages,     \* RingBuffer.messages (slots 1..capacity)
    rbIndex,        \* RingBuffer.index (0-based write cursor)
    rbSize,         \* RingBuffer.size
    \* Subscriber
    clientID,       \* ClientID
    subTopics,      \* Topics
    queue,          \* MessageChan's buffer
    chanClosed,     \* MessageChan has been closed
    closed,         \* closed
    connOpen,       \* Conn has not been closed
    \* goroutines
    loc,            \* HandleWebSocket goroutine of each connection, and
                    \* the goroutine of the control surface
    script,         \* requests the peer (the operator) is still to send
    faultsLeft,     \* faults of the environment still to come
    wpc,            \* WritePump goroutine: program counter
    inflight,       \* WritePump: frame received and not yet written
    ticksLeft,      \* ticker ticks still to come
    asyncPending,   \* goroutines started by `go s.Close()`, not yet run
    asyncStage,     \* the `go s.Close()` goroutine that won the closed flag
    sdpc,           \* supervisor: program counter in Shutdown
    sdLeft,         \* supervisor: clients still to close
    sdCur,          \* supervisor: client being closed
    \* history of the execution
    enq,            \* every frame appended to MessageChan, in order
    written,        \* every frame written to the transport, in order
    dropped,        \* frames removed by the drop-oldest step
    pubLog,         \* every message added to the ring buffer, in order
    nextMsg,        \* next fresh message id
    publisher,      \* the connection that sent each publish frame, by id
    panicked,       \* a goroutine ended in a run-time panic
    \* control surface and credentials
    validator,      \* APIKeyValidator: enabled, validKeys
    unread,         \* connections whose peer does not read from its socket
    await,          \* responses the operator has had when the peers connect
    capacity,       \* cfg.SubscriberQueue: capacity of every MessageChan
    staged,         \* the peers go on once every write pump is in a write
    replies,        \* every response of the control surface, in order
    pubOk,          \* Publish calls that returned nil, per topic object
    delOk           \* the DeleteTopic call that returned nil, per topic
                    \* object, with the subscribers of its snapshot

engineVars == <<engTopics, engClients, shuttingDown, emuHeld>>
topicVars == <<tName, tSubs, tCount, rbMessages, rbIndex, rbSize, pubLog>>
chanVars == <<queue, enq, dropped>>
subVars == <<clientID, subTopics, chanClosed, closed, connOpen>>
msgVars == <<nextMsg, publisher>>
handlerVars == <<loc, script, msgVars, panicked>>
writerVars == <<wpc, inflight, ticksLeft, written>>
asyncVars == <<asyncPending, asyncStage>>
superVars == <<sdpc, sdLeft, sdCur>>
envVars == <<validator, unread, await, capacity, staged>>
surfaceVars == <<envVars, replies, pubOk, delOk>>

vars == <<faultsLeft, engineVars, topicVars, chanVars, subVars, handlerVars,
          writerVars, asyncVars, superVars, surfaceVars>>

\* A ValidateKey that takes every key that is not empty.
ValidateAnyKey(key) == ~validator.enabled \/ key # <<>>

\* APIKeyValidator.ValidateKey.
ValidateKey(key) ==
    IF ~validator.enabled THEN TRUE
    ELSE IF key = <<>> THEN FALSE
    ELSE key \in validator.validKeys

\* APIKeyValidator.IsEnabled.
IsEnabled == validator.enabled

\* The routes behind the middleware.
Protected(call) == call.type \in {"create", "delete", "list", "stats"}

\* AuthMiddleware: "next" when the request goes on to its handler, else
\* the error code of the 401 response.
AuthMiddleware(call) ==
    IF ~IsEnabled THEN "next"
    ELSE IF call.key = <<>> THEN "MISSING_API_KEY"
    ELSE IF ~ValidateKey(call.key) THEN "INVALID_API_KEY"
    ELSE "next"

Admitted(call) == ~Protected(call) \/ AuthMiddleware(call) = "next"

\* A run of the service is driven by its environment: the peers that
\* connect and the frames each of them sends, and the number of faults and
\* of ticks that occur.
ScenarioWith(frames, ids, ctl, f, t) ==
    [frames |-> frames, ids |-> ids, ctl |-> <<ctl>>, faults |-> f,
     ticks |-> t,
     validator |-> NewAPIKeyValidator({}, FALSE), unread |-> {},
     await |-> 0, capacity |-> queueSize, staged |-> FALSE]

\* The scenario with credential validation enabled and the given keys
\* configured.
Secured(sc, keys) == [sc EXCEPT !.validator = NewAPIKeyValidator(keys, TRUE)]

\* The scenario with one more client of the control surface, which sends
\* the requests ctl.
Alongside(sc, ctl) == [sc EXCEPT !.ctl = Append(@, ctl)]

\* The scenario in which the peers of the connections cs do not read from
\* their sockets: a write to their transport does not return while the run
\* lasts, unless it fails.
Unread(sc, cs) == [sc EXCEPT !.unread = cs]

\* The scenario in which the peers connect once the operator has had the
\* responses to the requests of its first client.
Settled(sc) == [sc EXCEPT !.await = Len(sc.ctl[1])]

\* The scenario in which the service is configured with queues of q frames
\* (SUBSCRIBER_QUEUE_SIZE).
QueueOf(sc, q) == [sc EXCEPT !.capacity = q]

\* The scenario in which every peer sends its first frame and, after a
\* pause, the next ones: by then the write pump of every connection has
\* taken a frame from the queue and is in its write.
Staged(sc) == [sc EXCEPT !.staged = TRUE]

\* Every connection presents its own client id; the operator creates the
\* topic "orders".
Scenario(frames, f, t) ==
    ScenarioWith(frames, [c \in DOMAIN frames |-> c],
                 <<CreateCall("orders")>>, f, t)

\* n Publish frames in a row.
Pubs(n) == [i \in 1..n |-> Publish("orders")]

Scenarios ==
    \* one peer publishes n messages and then subscribes with last_n = k
    { Scenario(<<Pubs(n) \o <<Subscribe("orders", k)>>>>, 0, 0) :
        n \in 0..(ringBufferSize + 1), k \in LastNs }
    \cup
    \* one peer subscribes and publishes past the capacity of its own queue
    { Scenario(<<<<Subscribe("orders", 0)>> \o Pubs(queueSize + 2)>>, 0, 0) }
    \cup
    \* two peers, one subscribing while the other publishes, the topic
    \* being there
    { Settled(Scenario(<<<<Publish("orders"), Subscribe("orders", 2)>>,
                         <<Publish("orders")>>>>, 0, 0)),
      Settled(Scenario(<<<<Subscribe("orders", 3), Publish("orders")>>,
                         <<Publish("orders")>>>>, 0, 0)),
      Settled(Scenario(<<<<Subscribe("orders", 0), Unsubscribe("orders")>>,
                         <<Publish("orders")>>>>, 0, 0)),
      Settled(Scenario(<<<<Subscribe("orders", 0), Publish("orders")>>,
                         <<Subscribe("orders", 0)>>>>, 0, 0)) }
    \cup
    \* the same under faults of the environment and heartbeat ticks
    { Scenario(<<<<Subscribe("orders", 1), Publish("orders"), Ping>>>>,
               MaxFaults, MaxTicks),
      Settled(Scenario(<<<<Subscribe("orders", 0)>>, <<Publish("orders")>>>>,
                       MaxFaults, 0)) }
    \cup
    \* one peer subscribes and unsubscribes, once and again
    { Scenario(<<<<Publish("orders"), Subscribe("orders", 1),
                   Unsubscribe("orders"), Unsubscribe("orders")>>>>, 0, 0),
      Scenario(<<<<Subscribe("orders", 0), Subscribe("orders", 0),
                   Unsubscribe("orders")>>>>, 0, 0),
      Scenario(<<<<Subscribe("orders", 0), Subscribe("orders", 0),
                   Publish("orders")>>>>, 0, 0) }
    \cup
    \* requests that are refused: a bad message id, an unknown type, a
    \* second auth, no topic, a topic that does not exist
    { Scenario(<<<<Subscribe("orders", 0), Publish("orders"),
                   PublishWith("orders", "text"),
                   PublishWith("orders", "empty"),
                   PublishWith("orders", "none")>>>>, 0, 0),
      Scenario(<<<<Subscribe("orders", 0), UnknownFrame, AuthFrame(<<>>),
                   Subscribe("", 0), Unsubscribe(""),
                   PublishWith("", "uuid"), Subscribe("alerts", 0),
                   Unsubscribe("alerts"), Publish("alerts"), Ping>>>>, 0, 0),
      Settled(Scenario(<<<<Subscribe("orders", 0)>>,
                         <<PublishWith("orders", "text"),
                           Publish("orders")>>>>, 0, 0)),
      Settled(Scenario(<<<<Subscribe("orders", 0), UnknownFrame>>,
                         <<Publish("orders"), Publish("orders")>>>>, 0, 0)) }
    \cup
    \* the operator asks for what is there, and for what cannot be done,
    \* while a peer publishes
    { ScenarioWith(<<<<Subscribe("orders", 0), Publish("orders")>>>>, <<1>>,
                   <<CreateCall("orders"), CreateCall("orders"),
                     DeleteCall("alerts"), StatsCall, ListCall,
                     HealthCall>>, 0, 0) }
    \cup
    \* the operator asks for the statistics of a topic whose subscriber's
    \* transport fails
    { ScenarioWith(<<<<Subscribe("orders", 0), Publish("orders")>>>>, <<1>>,
                   <<CreateCall("orders"), StatsCall>>, MaxFaults, 0) }
    \cup
    \* credential validation is enabled: the operator with and without the
    \* key
    { Secured(ScenarioWith(<<>>, <<>>,
                           <<WithKey(CreateCall("orders"), <<"k">>),
                             CreateCall("alerts"),
                             WithKey(DeleteCall("orders"), <<"x">>),
                             WithKey(StatsCall, <<" ", "k">>),
                             ListCall, HealthCall,
                             WithKey(ListCall, <<"k">>),
                             WithKey(DeleteCall("orders"), <<"k">>)>>, 0, 0),
              {<<" ", "k", " ">>, <<"\t", "k", "\n">>, <<"\r", "U+00A0">>,
               <<" ">>, <<>>}) }
    \cup
    \* credential validation is enabled: a peer that presents the key, one
    \* that presents another or none, one that sends something else first,
    \* one that sends nothing, one that goes away
    { Secured(ScenarioWith(<<fs>>, <<1>>,
                           <<WithKey(CreateCall("orders"), <<"k">>)>>, 0, 0),
              {<<"k">>}) :
        fs \in { <<AuthFrame(<<"k">>), Subscribe("orders", 0),
                   Publish("orders"), AuthFrame(<<"k">>)>>,
                 <<AuthFrame(<<"x">>), Subscribe("orders", 0)>>,
                 <<AuthFrame(<<>>), Publish("orders")>>,
                 <<Subscribe("orders", 0), Publish("orders")>>,
                 <<Ping>>,
                 <<>> } }
    \cup
    { Secured(ScenarioWith(<<<<AuthFrame(<<"k">>), Ping>>>>, <<1>>,
                           <<WithKey(CreateCall("orders"), <<"k">>)>>,
                           MaxFaults, 0),
              {<<"k">>}) }
    \cup
    \* the operator deletes the topic, and creates it again, under traffic
    { ScenarioWith(<<<<Subscribe("orders", 0), Publish("orders")>>>>, <<1>>,
                   <<CreateCall("orders"), DeleteCall("orders"),
                     CreateCall("orders")>>, 0, 0),
      ScenarioWith(<<<<Subscribe("orders", 0)>>, <<Subscribe("orders", 0)>>>>,
                   <<1, 2>>,
                   <<CreateCall("orders"), DeleteCall("orders")>>, 0, 0) }
    \cup
    \* two connections present the same client id
    { Settled(ScenarioWith(<<<<Subscribe("orders", 0)>>,
                             <<Subscribe("orders", 0)>>>>,
                           <<1, 1>>, <<CreateCall("orders")>>, MaxFaults, 0)),
      Settled(ScenarioWith(<<<<Subscribe("orders", 1)>>,
                             <<Publish("orders")>>>>,
                           <<1, 1>>, <<CreateCall("orders")>>, 0, 0)) }
    \cup
    \* two clients of the operator at once: both delete the topic, one of
    \* them after a request without a name, and creates it again; one lists
    \* and deletes while the other asks for the statistics
    { Alongside(ScenarioWith(<<<<Subscribe("orders", 0)>>>>, <<1>>,
                             <<CreateCall("orders"), DeleteCall("orders")>>,
                             0, 0),
                <<CreateCall(""), DeleteCall("orders"),
                  CreateCall("orders")>>),
      Alongside(ScenarioWith(<<<<Subscribe("orders", 0)>>>>, <<1>>,
                             <<CreateCall("orders"), StatsCall>>, 0, 0),
                <<ListCall, DeleteCall("orders")>>) }
    \cup
    \* the operator asks for the statistics while a peer publishes and then
    \* subscribes
    { ScenarioWith(<<<<Publish("orders"), Subscribe("orders", 0)>>>>, <<1>>,
                   <<CreateCall("orders"), StatsCall>>, 0, 0) }
    \cup
    \* the operator deletes the topic of a subscriber whose transport fails,
    \* and goes on
    { ScenarioWith(<<<<Subscribe("orders", 0)>>>>, <<1>>,
                   <<CreateCall("orders"), DeleteCall("orders"),
                     HealthCall>>, MaxFaults, 0) }
    \cup
    \* two topics, each with its own subscriber
    { ScenarioWith(<<<<Subscribe("alerts", 0), Publish("orders")>>,
                     <<Subscribe("orders", 0)>>>>, <<1, 2>>,
                   <<CreateCall("orders"), CreateCall("alerts")>>, 0, 0) }

\* NewPubSubEngine: no topics, no clients; nothing is connected.  The run
\* is one of those of the menu.
InitOf(menu) ==
    /\ engTopics = [n \in TopicNames |-> 0]
    /\ engClients = [i \in ClientIds |-> 0]
    /\ shuttingDown = FALSE
    /\ emuHeld = FALSE
    /\ tName = [o \in TopicObjs |-> ""]
    /\ tSubs = [o \in TopicObjs |-> [i \in ClientIds |-> 0]]
    /\ tCount = [o \in TopicObjs |-> 0]
    /\ rbMessages = [o \in TopicObjs |-> [k \in 1..ringBufferSize |-> 0]]
    /\ rbIndex = [o \in TopicObjs |-> 0]
    /\ rbSize = [o \in TopicObjs |-> 0]
    /\ pubLog = [o \in TopicObjs |-> <<>>]
    /\ clientID = [c \in Conns |-> 0]
    /\ subTopics = [c \in Conns |-> {}]
    /\ queue = [c \in Conns |-> <<>>]
    /\ chanClosed = [c \in Conns |-> FALSE]
    /\ closed = [c \in Conns |-> FALSE]
    /\ connOpen = [c \in Conns |-> FALSE]
    /\ \E sc \in menu :
          /\ loc = [p \in Procs |->
                       IdleLocals(IF p \in Rests THEN "ctl_ready"
                                  ELSE IF p \in DOMAIN sc.frames THEN "new"
                                  ELSE "absent")]
          /\ script = [p \in Procs |->
                          IF p \in Rests
                          THEN IF p - NConns \in DOMAIN sc.ctl
                               THEN sc.ctl[p - NConns] ELSE <<>>
                          ELSE IF p \in DOMAIN sc.frames
                          THEN <<Connect(sc.ids[p])>> \o sc.frames[p]
                          ELSE <<>>]
          /\ faultsLeft = sc.faults
          /\ ticksLeft = sc.ticks
          /\ validator = sc.validator
          /\ unread = sc.unread
          /\ await = sc.await
          /\ capacity = sc.capacity
          /\ staged = sc.staged
    /\ nextMsg = 1
    /\ publisher = <<>>
    /\ panicked = {}
    /\ wpc = [c \in Conns |-> "off"]
    /\ inflight = [c \in Conns |-> NoFrame]
    /\ written = [c \in Conns |-> <<>>]
    /\ asyncPending = [c \in Conns |-> 0]
    /\ asyncStage = [c \in Conns |-> "none"]
    /\ sdpc = "idle"
    /\ sdLeft = {}
    /\ sdCur = 0
    /\ enq = [c \in Conns |-> <<>>]
    /\ dropped = [c \in Conns |-> 0]
    /\ replies = <<>>
    /\ pubOk = [o \in TopicObjs |-> 0]
    /\ delOk = [o \in TopicObjs |-> NoDel]

Init == InitOf(Scenarios)

(* ---------------------------- ring buffer ----------------------------- *)

\* An Add that keeps counting the size past the capacity.
RingBufferAddUnbounded(o, msg) ==
    /\ rbMessages' = [rbMessages EXCEPT ![o][rbIndex[o] + 1] = msg]
    /\ rbIndex' = [rbIndex EXCEPT ![o] = (rbIndex[o] + 1) % ringBufferSize]
    /\ rbSize' = [rbSize EXCEPT ![o] = @ + 1]

\* RingBuffer.Add: write at the cursor, advance it modulo the capacity,
\* saturate the size.
RingBufferAdd(o, msg) ==
    /\ rbMessages' = [rbMessages EXCEPT ![o][rbIndex[o] + 1] = msg]
    /\ rbIndex' = [rbIndex EXCEPT ![o] = (rbIndex[o] + 1) % ringBufferSize]
    /\ rbSize' = [rbSize EXCEPT ![o] = IF @ < ringBufferSize THEN @ + 1 ELSE @]

\* A GetLast that reads its window from slot 0 instead of from the cursor.
GetLastFromSlotZero(o, n) ==
    IF n <= 0 \/ rbSize[o] = 0
    THEN <<>>
    ELSE LET k == IF n > rbSize[o] THEN rbSize[o] ELSE n
         IN  [i \in 1..k |-> rbMessages[o][((i - 1) % ringBufferSize) + 1]]

\* RingBuffer.GetLast: the last min(n, size) messages, oldest first.
GetLast(o, n) ==
    IF n <= 0 \/ rbSize[o] = 0
    THEN <<>>
    ELSE LET k == IF n > rbSize[o] THEN rbSize[o] ELSE n
             start == (rbIndex[o] - k + ringBufferSize) % ringBufferSize
         IN  [i \in 1..k |->
                 rbMessages[o][((start + (i - 1)) % ringBufferSize) + 1]]

(* ------------------------------- topic -------------------------------- *)

\* t.mu is write-locked: a PublishMessage has added its message to the ring
\* buffer (topic.go:86) and has not yet counted it and unlocked (87-88).
\* Every method of the topic that takes t.mu waits; GetLastN, which takes
\* the ring buffer's lock only, does not.
TopicLocked(o) ==
    \E c \in Conns : loc[c].pc = "pub_count" /\ loc[c].tref = o

\* A snapshot loop that loses the map's first entry.
GetSubscribersSkipFirst(o) ==
    LET all == {tSubs[o][i] : i \in ClientIds} \ {0} IN
    {s \in all : \E t \in all : t < s}

\* Topic.GetSubscribers: the subscribers in the map, as a snapshot.
GetSubscribers(o) == {tSubs[o][i] : i \in ClientIds} \ {0}

\* An AddSubscriber that takes out a subscriber that is already there.
AddSubscriberToggle(o, s) ==
    tSubs' = [tSubs EXCEPT ![o][clientID[s]] =
                 IF tSubs[o][clientID[s]] = s THEN 0 ELSE s]

\* Topic.AddSubscriber: Subscribers[sub.ClientID] = sub.
AddSubscriber(o, s) ==
    tSubs' = [tSubs EXCEPT ![o][clientID[s]] = s]

\* A RemoveSubscriber that leaves the map as it is.
RemoveSubscriberNothing(o, id) == tSubs' = tSubs

\* Topic.RemoveSubscriber: delete(Subscribers, clientID).
RemoveSubscriber(o, id) ==
    tSubs' = [tSubs EXCEPT ![o][id] = 0]

(* ----------------------------- subscriber ----------------------------- *)

\* Subscriber.IsClosed.
IsClosed(s) == closed[s]

\* A channel whose buffer takes one frame more than its capacity.
ChanHasRoomOffByOne(s) == Len(queue[s]) <= capacity

\* `case s.MessageChan <- msg` is ready: the buffer has room.
ChanHasRoom(s) == Len(queue[s]) < capacity

\* A drop step that removes the newest buffered frame.
DropNewest(q) == IF Len(q) > 0 THEN SubSeq(q, 1, Len(q) - 1) ELSE q

\* `case <-s.MessageChan` of the drop-oldest step: the head leaves the
\* buffer; on an empty buffer the select takes its default (or, on a closed
\* channel, receives the zero value) and the buffer stays empty.
DropOldest(q) == IF Len(q) > 0 THEN Tail(q) ELSE q

\* A channel that hands out the newest frame first.
ChanSendFront(s, f) ==
    LET g == [f EXCEPT !.seq = Len(enq[s]) + 1] IN
    /\ queue' = [queue EXCEPT ![s] = <<g>> \o @]
    /\ enq' = [enq EXCEPT ![s] = Append(@, g)]

\* A successful `s.MessageChan <- f`.
ChanSend(s, f) ==
    LET g == [f EXCEPT !.seq = Len(enq[s]) + 1] IN
    /\ queue' = [queue EXCEPT ![s] = Append(@, g)]
    /\ enq' = [enq EXCEPT ![s] = Append(@, g)]

SetLoc(c, l) == loc' = [loc EXCEPT ![c] = l]

\* The engine has returned to the handler of a request of the control
\* surface, every lock released; the response is yet to be written.
Replying(resp) == [IdleLocals("ctl_reply") EXCEPT !.resp = resp]

\* A call of Subscriber.SendMessage(frame) on subscriber `to`.
StartSend(l, to, frame, ret) ==
    [l EXCEPT !.pc = "sm_lock", !.to = to, !.frame = frame, !.ret = ret]

\* The handler has returned to readPump's loop.  The request it served, the
\* topic it resolved and the history it read stay visible as bookkeeping
\* until the next frame is read.
Returned(l) ==
    [IdleLocals("ready") EXCEPT !.op = l.op, !.tref = l.tref,
                                !.history = l.history, !.err = l.err]

\* What the caller does when SendMessage returns: the replay loop of
\* handleSubscribe sends the next historical message, the fan-out loop of
\* PublishMessage goes to its next subscriber and, after the last one,
\* handlePublish sends its Ack, the notification loop of DeleteTopic goes
\* on to RemoveTopic; every other call was the handler's last.
\* A return from SendMessage that ends the read loop after an Error frame.
AfterSendErrorEnds(c, l) ==
    CASE l.ret = "sub_replay" /\ l.hidx < Len(l.history) ->
            StartSend([l EXCEPT !.hidx = @ + 1], c,
                      ReplayEvent(l.op.topic, l.history[l.hidx + 1]),
                      "sub_replay")
      [] l.ret = "pub_loop" /\ l.left # {} ->
            [l EXCEPT !.pc = "pub_next", !.to = 0, !.frame = NoFrame,
                      !.ret = ""]
      [] l.ret = "pub_loop" /\ l.left = {} ->
            [l EXCEPT !.pc = "pub_ret", !.to = 0, !.frame = NoFrame,
                      !.ret = ""]
      [] l.ret = "del_loop" ->
            [l EXCEPT !.pc = "del_rmtopic", !.frame = NoFrame, !.ret = ""]
      [] l.ret \in {"auth_true", "auth_false", "auth_end"} ->
            [IdleLocals(l.ret) EXCEPT !.op = l.op]
      [] l.ret = "ready" /\ l.frame.type = "error" ->
            IdleLocals("unreg_lock")
      [] OTHER -> Returned(l)

AfterSend(c, l) ==
    CASE l.ret = "sub_replay" /\ l.hidx < Len(l.history) ->
            StartSend([l EXCEPT !.hidx = @ + 1], c,
                      ReplayEvent(l.op.topic, l.history[l.hidx + 1]),
                      "sub_replay")
      [] l.ret = "pub_loop" /\ l.left # {} ->
            [l EXCEPT !.pc = "pub_next", !.to = 0, !.frame = NoFrame,
                      !.ret = ""]
      [] l.ret = "pub_loop" /\ l.left = {} ->
            [l EXCEPT !.pc = "pub_ret", !.to = 0, !.frame = NoFrame,
                      !.ret = ""]
      [] l.ret = "del_loop" ->
            [l EXCEPT !.pc = "del_rmtopic", !.frame = NoFrame, !.ret = ""]
      [] l.ret \in {"auth_true", "auth_false", "auth_end"} ->
            [IdleLocals(l.ret) EXCEPT !.op = l.op]
      [] OTHER -> Returned(l)

\* A run-time panic in goroutine c.  In a HandleWebSocket goroutine
\* readPump's deferred Conn.Close runs, gin's Recovery middleware ends the
\* request, and UnregisterClient is never reached.  In the goroutine of a
\* request of the control surface the Recovery middleware (part_005:1090)
\* answers 500, and the client's next request is served.  In the
\* goroutine readPump starts with `go func()` (part_003:110) nothing
\* recovers the panic: the Go runtime ends the process.
Panic(c) ==
    /\ panicked' = panicked \cup {c}
    /\ IF c \in Rests
       THEN /\ loc' = [loc EXCEPT ![c] = IdleLocals("ctl_ready")]
            /\ replies' = Append(replies,
                                 Response(loc[c].op, 500, "panic", {}))
            /\ UNCHANGED connOpen
       ELSE /\ loc' = [loc EXCEPT ![c] = IdleLocals("panicked")]
            /\ connOpen' = [s \in Conns |-> connOpen[s] /\ s # c]
            /\ UNCHANGED replies

\* The process has ended: a panic went unrecovered.  No goroutine takes
\* another step.
ProcessDown == panicked \cap AuthGos # {}

\* The connections, and the clients of the control surface, whose
\* goroutines run.
Running(ps) == IF ProcessDown THEN {} ELSE ps

\* SendMessage, lines 64-69: return at once on a closed subscriber.
SendLock(c) ==
    LET l == loc[c] IN
    /\ l.pc = "sm_lock"
    /\ SetLoc(c, IF closed[l.to] THEN AfterSend(c, l)
                 ELSE [l EXCEPT !.pc = "sm_try"])
    /\ UNCHANGED surfaceVars
    /\ UNCHANGED <<faultsLeft, engineVars, topicVars, chanVars, subVars,
                   script, msgVars, panicked, writerVars, asyncVars,
                   superVars>>

\* A first send that waits for room in the buffer.
SendTryWaits(c) ==
    LET l == loc[c] IN
    /\ l.pc = "sm_try"
    /\ chanClosed[l.to] \/ ChanHasRoom(l.to)
    /\ IF chanClosed[l.to]
       THEN Panic(c) /\ UNCHANGED chanVars
       ELSE /\ ChanSend(l.to, l.frame)
            /\ SetLoc(c, AfterSend(c, l))
            /\ UNCHANGED <<dropped, panicked, connOpen, replies>>
    /\ UNCHANGED <<envVars, pubOk, delOk>>
    /\ UNCHANGED <<faultsLeft, engineVars, topicVars, clientID, subTopics,
                   chanClosed, closed, script, msgVars, writerVars, asyncVars,
                   superVars>>

\* SendMessage, lines 71-76: the first non-blocking send.
SendTry(c) ==
    LET l == loc[c] IN
    /\ l.pc = "sm_try"
    /\ IF chanClosed[l.to]
       THEN Panic(c) /\ UNCHANGED chanVars
       ELSE IF ChanHasRoom(l.to)
       THEN /\ ChanSend(l.to, l.frame)
            /\ SetLoc(c, AfterSend(c, l))
            /\ UNCHANGED <<dropped, panicked, connOpen, replies>>
       ELSE /\ SetLoc(c, [l EXCEPT !.pc = "sm_drop"])
            /\ UNCHANGED <<chanVars, panicked, connOpen, replies>>
    /\ UNCHANGED <<envVars, pubOk, delOk>>
    /\ UNCHANGED <<faultsLeft, engineVars, topicVars, clientID, subTopics,
                   chanClosed, closed, script, msgVars, writerVars, asyncVars,
                   superVars>>

\* A drop step that removes nothing.
SendDropNothing(c) ==
    LET l == loc[c] IN
    /\ l.pc = "sm_drop"
    /\ SetLoc(c, [l EXCEPT !.pc = "sm_retry"])
    /\ UNCHANGED surfaceVars
    /\ UNCHANGED <<faultsLeft, engineVars, topicVars, chanVars, subVars,
                   script, msgVars, panicked, writerVars, asyncVars,
                   superVars>>

\* SendMessage, lines 78-82: remove the oldest frame, if there is one.
SendDrop(c) ==
    LET l == loc[c] IN
    /\ l.pc = "sm_drop"
    /\ queue' = [queue EXCEPT ![l.to] = DropOldest(@)]
    /\ dropped' = [dropped EXCEPT ![l.to] =
                      IF Len(queue[l.to]) > 0 THEN @ + 1 ELSE @]
    /\ SetLoc(c, [l EXCEPT !.pc = "sm_retry"])
    /\ UNCHANGED surfaceVars
    /\ UNCHANGED <<faultsLeft, engineVars, topicVars, enq, subVars, script,
                   msgVars, panicked, writerVars, asyncVars, superVars>>

\* SendMessage, lines 84-88: the second non-blocking send.
SendRetry(c) ==
    LET l == loc[c] IN
    /\ l.pc = "sm_retry"
    /\ IF chanClosed[l.to]
       THEN Panic(c) /\ UNCHANGED chanVars
       ELSE IF ChanHasRoom(l.to)
       THEN /\ ChanSend(l.to, l.frame)
            /\ SetLoc(c, AfterSend(c, l))
            /\ UNCHANGED <<dropped, panicked, connOpen, replies>>
       ELSE /\ SetLoc(c, [l EXCEPT !.pc = "sm_err"])
            /\ UNCHANGED <<chanVars, panicked, connOpen, replies>>
    /\ UNCHANGED <<envVars, pubOk, delOk>>
    /\ UNCHANGED <<faultsLeft, engineVars, topicVars, clientID, subTopics,
                   chanClosed, closed, script, msgVars, writerVars, asyncVars,
                   superVars>>

\* SendMessage, lines 89-104: still full; try to queue the SLOW_CONSUMER
\* error and start `go s.Close()`.
SendSlowConsumer(c) ==
    LET l == loc[c] IN
    /\ l.pc = "sm_err"
    /\ IF chanClosed[l.to]
       THEN Panic(c) /\ UNCHANGED <<chanVars, asyncPending>>
       ELSE /\ IF ChanHasRoom(l.to)
               THEN ChanSend(l.to, SlowConsumerMsg)
               ELSE UNCHANGED <<queue, enq>>
            /\ asyncPending' = [asyncPending EXCEPT ![l.to] = @ + 1]
            /\ SetLoc(c, AfterSend(c, l))
            /\ UNCHANGED <<dropped, panicked, connOpen, replies>>
    /\ UNCHANGED <<envVars, pubOk, delOk>>
    /\ UNCHANGED <<faultsLeft, engineVars, topicVars, clientID, subTopics,
                   chanClosed, closed, script, msgVars, writerVars,
                   asyncStage, superVars>>

SendMessage(c) ==
    \/ SendLock(c)
    \/ SendTry(c)
    \/ SendDrop(c)
    \/ SendRetry(c)
    \/ SendSlowConsumer(c)

(* ------------------------------- engine ------------------------------- *)

\* PubSubEngine.GetTopic: the topic registered under the name, 0 if none.
GetTopic(name) == engTopics[name]

\* The registry is read-locked by a request that ranges over the topics.
RegistryReadLocked ==
    \E r \in Rests : loc[r].pc \in {"list_next", "stats_next", "stats_subs"}

\* c.ShouldBindJSON(&req) returns no error: the body is a JSON object with
\* a name that is not empty (binding:"required").
ShouldBindJSON(call) == call.topic # ""

\* RESTHandler.CreateTopic, lines 364-373: a body that does not bind is
\* answered 400, and so is an empty name; the engine is not called.
CreateTopicBadRequest(r) ==
    /\ loc[r].pc = "ctl_ready"
    /\ script[r] # <<>>
    /\ Head(script[r]).type = "create"
    /\ Admitted(Head(script[r]))
    /\ ~ShouldBindJSON(Head(script[r])) \/ Head(script[r]).topic = ""
    /\ replies' = Append(replies,
                         Response(Head(script[r]), 400,
                                  IF ~ShouldBindJSON(Head(script[r]))
                                  THEN "name is required"
                                  ELSE "topic name cannot be empty", {}))
    /\ script' = [script EXCEPT ![r] = Tail(@)]
    /\ SetLoc(r, IdleLocals("ctl_ready"))
    /\ UNCHANGED <<envVars, pubOk, delOk>>
    /\ UNCHANGED <<faultsLeft, engineVars, topicVars, chanVars, subVars,
                   msgVars, panicked, writerVars, asyncVars, superVars>>

\* A CreateTopic that puts a new topic object in the place of the one
\* registered under the name.
CreateTopicOverwrite(r) ==
    /\ loc[r].pc = "ctl_ready"
    /\ script[r] # <<>>
    /\ Head(script[r]).type = "create"
    /\ Admitted(Head(script[r]))
    /\ ShouldBindJSON(Head(script[r]))
    /\ ~emuHeld /\ ~RegistryReadLocked
    /\ LET call == Head(script[r])
           name == call.topic
       IN  /\ SetLoc(r, Replying(Response(call, 201, "", {})))
           /\ \E o \in TopicObjs :
                 /\ tName[o] = ""
                 /\ \A o2 \in TopicObjs : tName[o2] = "" => o <= o2
                 /\ engTopics' = [engTopics EXCEPT ![name] = o]
                 /\ tName' = [tName EXCEPT ![o] = name]
    /\ script' = [script EXCEPT ![r] = Tail(@)]
    /\ UNCHANGED surfaceVars
    /\ UNCHANGED <<faultsLeft, engClients, shuttingDown, emuHeld, tSubs,
                   tCount, rbMessages, rbIndex, rbSize, pubLog, chanVars,
                   subVars, msgVars, panicked, writerVars, asyncVars,
                   superVars>>

\* RESTHandler.CreateTopic with a body that binds, line 376, and
\* PubSubEngine.CreateTopic: under the registry lock, register a new topic
\* object under the name and return nil, or return ErrTopicExists.  The
\* response, 201 or 409, is written once the lock is released.
CreateTopic(r) ==
    /\ loc[r].pc = "ctl_ready"
    /\ script[r] # <<>>
    /\ Head(script[r]).type = "create"
    /\ Admitted(Head(script[r]))
    /\ ShouldBindJSON(Head(script[r]))
    /\ ~emuHeld /\ ~RegistryReadLocked
    /\ LET call == Head(script[r])
           name == call.topic
       IN  IF engTopics[name] # 0
           THEN /\ SetLoc(r, Replying(Response(call, 409, "ErrTopicExists",
                                               {})))
                /\ UNCHANGED <<engTopics, tName>>
           ELSE /\ SetLoc(r, Replying(Response(call, 201, "", {})))
                /\ \E o \in TopicObjs :
                      /\ tName[o] = ""
                      /\ \A o2 \in TopicObjs : tName[o2] = "" => o <= o2
                      /\ engTopics' = [engTopics EXCEPT ![name] = o]
                      /\ tName' = [tName EXCEPT ![o] = name]
    /\ script' = [script EXCEPT ![r] = Tail(@)]
    /\ UNCHANGED surfaceVars
    /\ UNCHANGED <<faultsLeft, engClients, shuttingDown, emuHeld, tSubs,
                   tCount, rbMessages, rbIndex, rbSize, pubLog, chanVars,
                   subVars, msgVars, panicked, writerVars, asyncVars,
                   superVars>>

(* PubSubEngine.DeleteTopic, called by the control surface *)

\* DeleteTopic returns nil, line 98: the handler is to write the response
\* 200, and the return is recorded for the topic object, with the
\* subscribers of the snapshot.
DeleteReturned(l) == Replying(Response(l.op, 200, "", {}))

DeleteReturns(l) ==
    delOk' = [delOk EXCEPT ![l.tref] = [returned |-> TRUE,
                                        members |-> l.members]]

\* DeleteTopic, lines 72-80: under the registry lock, take the topic out
\* of the registry, or return ErrTopicNotFound; the response 404 is
\* written once the lock is released.
DeleteLock(r) ==
    /\ loc[r].pc = "ctl_ready"
    /\ script[r] # <<>>
    /\ Head(script[r]).type = "delete"
    /\ Admitted(Head(script[r]))
    /\ ~emuHeld /\ ~RegistryReadLocked
    /\ LET call == Head(script[r])
           name == call.topic
       IN  IF engTopics[name] = 0
           THEN /\ SetLoc(r, Replying(Response(call, 404,
                                               "ErrTopicNotFound", {})))
                /\ UNCHANGED engTopics
           ELSE /\ engTopics' = [engTopics EXCEPT ![name] = 0]
                /\ SetLoc(r, [IdleLocals("del_snap") EXCEPT
                                    !.op = [NoOp EXCEPT !.type = "delete",
                                                        !.topic = name],
                                    !.tref = engTopics[name]])
    /\ script' = [script EXCEPT ![r] = Tail(@)]
    /\ UNCHANGED surfaceVars
    /\ UNCHANGED <<faultsLeft, engClients, shuttingDown, emuHeld, topicVars,
                   chanVars, subVars, msgVars, panicked, writerVars,
                   asyncVars, superVars>>

\* DeleteTopic, line 85: snapshot the subscribers of the removed topic.
DeleteSnapshot(r) ==
    LET l == loc[r]
        m == [l EXCEPT !.left = GetSubscribers(l.tref),
                       !.members = {tSubs[l.tref][i] : i \in ClientIds} \ {0}]
    IN
    /\ l.pc = "del_snap"
    /\ ~TopicLocked(l.tref)
    /\ IF m.left = {}
       THEN SetLoc(r, DeleteReturned(m)) /\ DeleteReturns(m)
       ELSE SetLoc(r, [m EXCEPT !.pc = "del_next"]) /\ UNCHANGED delOk
    /\ UNCHANGED <<envVars, replies, pubOk>>
    /\ UNCHANGED <<faultsLeft, engineVars, topicVars, chanVars, subVars,
                   script, msgVars, panicked, writerVars, asyncVars,
                   superVars>>

\* DeleteTopic, lines 93-94: the next subscriber of the snapshot (in map
\* order, which is arbitrary) is sent the notification.
DeleteNext(r) ==
    LET l == loc[r] IN
    /\ l.pc = "del_next"
    /\ \E s \in l.left :
          SetLoc(r, StartSend([l EXCEPT !.left = @ \ {s}], s,
                                 TopicDeletedMsg(l.op.topic), "del_loop"))
    /\ UNCHANGED surfaceVars
    /\ UNCHANGED <<faultsLeft, engineVars, topicVars, chanVars, subVars,
                   script, msgVars, panicked, writerVars, asyncVars,
                   superVars>>

\* DeleteTopic, line 95: sub.RemoveTopic(name); after the last subscriber
\* DeleteTopic returns.
DeleteRemoveTopic(r) ==
    LET l == loc[r] IN
    /\ l.pc = "del_rmtopic"
    /\ subTopics' = [subTopics EXCEPT ![l.to] = @ \ {l.op.topic}]
    /\ IF l.left = {}
       THEN SetLoc(r, DeleteReturned(l)) /\ DeleteReturns(l)
       ELSE SetLoc(r, [l EXCEPT !.pc = "del_next", !.to = 0])
            /\ UNCHANGED delOk
    /\ UNCHANGED <<envVars, replies, pubOk>>
    /\ UNCHANGED <<faultsLeft, engineVars, topicVars, chanVars, clientID,
                   chanClosed, closed, connOpen, script, msgVars, panicked,
                   writerVars, asyncVars, superVars>>

DeleteTopic(r) ==
    \/ DeleteLock(r)
    \/ DeleteSnapshot(r)
    \/ DeleteNext(r)
    \/ DeleteRemoveTopic(r)
    \/ SendMessage(r)

\* c.JSON in the handlers of the control surface (part_003:378, 386, 404,
\* 412, 422, 430, 436): the engine has returned and has released its
\* locks; the response is written and the request ends.
Reply(r) ==
    /\ loc[r].pc = "ctl_reply"
    /\ replies' = Append(replies, loc[r].resp)
    /\ SetLoc(r, IdleLocals("ctl_ready"))
    /\ UNCHANGED <<envVars, pubOk, delOk>>
    /\ UNCHANGED <<faultsLeft, engineVars, topicVars, chanVars, subVars,
                   script, msgVars, panicked, writerVars, asyncVars,
                   superVars>>

\* AuthMiddleware, lines 18-42: a request to a protected route without a
\* key, or with a key the validator does not accept, is answered 401 and
\* aborted.
AuthMiddlewareAbort(r) ==
    /\ loc[r].pc = "ctl_ready"
    /\ script[r] # <<>>
    /\ ~Admitted(Head(script[r]))
    /\ replies' = Append(replies,
                         Response(Head(script[r]), 401,
                                  AuthMiddleware(Head(script[r])), {}))
    /\ script' = [script EXCEPT ![r] = Tail(@)]
    /\ SetLoc(r, IdleLocals("ctl_ready"))
    /\ UNCHANGED <<envVars, pubOk, delOk>>
    /\ UNCHANGED <<faultsLeft, engineVars, topicVars, chanVars, subVars,
                   msgVars, panicked, writerVars, asyncVars, superVars>>

\* Topic.GetSubscriberCount: len(Subscribers).
GetSubscriberCount(o) == Cardinality({i \in ClientIds : tSubs[o][i] # 0})

\* Topic.GetMessageCount.
GetMessageCount(o) == tCount[o]

\* PubSubEngine.ListTopics / GetStats, first lines: take the registry's
\* read lock; the range over Topics starts.
SurveyLock(r, type, pc) ==
    /\ loc[r].pc = "ctl_ready"
    /\ script[r] # <<>>
    /\ Head(script[r]).type = type
    /\ Admitted(Head(script[r]))
    /\ ~emuHeld
    /\ SetLoc(r, [IdleLocals(pc) EXCEPT
                        !.op = [NoOp EXCEPT !.type = type],
                        !.left = {n \in TopicNames : engTopics[n] # 0}])
    /\ script' = [script EXCEPT ![r] = Tail(@)]
    /\ UNCHANGED surfaceVars
    /\ UNCHANGED <<faultsLeft, engineVars, topicVars, chanVars, subVars,
                   msgVars, panicked, writerVars, asyncVars, superVars>>

\* models.TopicInfo of the topic registered under n.
TopicInfo(n) ==
    [name |-> tName[engTopics[n]],
     subscribers |-> GetSubscriberCount(engTopics[n])]

\* models.TopicStats of topic n with the given figures.
TopicStats(n, messages, subscribers) ==
    [name |-> n, messages |-> messages, subscribers |-> subscribers]

\* The range over Topics (in map order, which is arbitrary).  ListTopics
\* appends the next topic's TopicInfo, read under the topic's lock.
\* GetStats, line 262, calls GetMessageCount of the next topic, which
\* reads the count under the topic's lock and releases it; the
\* subscribers are counted in a step of their own.  After the last topic
\* the registry lock is released (the deferred RUnlock); the response 200
\* is written after that.
SurveyNext(r, pc) ==
    LET l == loc[r] IN
    /\ l.pc = pc
    /\ IF l.left = {}
       THEN SetLoc(r, Replying(Response(l.op, 200, "", l.body)))
       ELSE    \E n \in l.left :
                  /\ ~TopicLocked(engTopics[n])
                  /\ SetLoc(r, IF pc = "list_next"
                            THEN [l EXCEPT !.left = @ \ {n},
                                           !.body = @ \cup {TopicInfo(n)}]
                            ELSE [l EXCEPT
                                     !.pc = "stats_subs",
                                     !.left = @ \ {n},
                                     !.op.topic = n,
                                     !.tref = engTopics[n],
                                     !.count =
                                        GetMessageCount(engTopics[n])])
    /\ UNCHANGED surfaceVars
    /\ UNCHANGED <<faultsLeft, engineVars, topicVars, chanVars, subVars,
                   script, msgVars, panicked, writerVars, asyncVars,
                   superVars>>

\* GetStats, line 263: GetSubscriberCount of the topic in hand, under the
\* topic's lock taken anew; the entry of the topic is set.
StatsSubscriberCount(r) ==
    LET l == loc[r] IN
    /\ l.pc = "stats_subs"
    /\ ~TopicLocked(l.tref)
    /\ SetLoc(r, [l EXCEPT
                     !.pc = "stats_next",
                     !.tref = 0,
                     !.count = 0,
                     !.body = @ \cup
                        {TopicStats(l.op.topic, l.count,
                                    GetSubscriberCount(l.tref))}])
    /\ UNCHANGED surfaceVars
    /\ UNCHANGED <<faultsLeft, engineVars, topicVars, chanVars, subVars,
                   script, msgVars, panicked, writerVars, asyncVars,
                   superVars>>

\* PubSubEngine.ListTopics, called by RESTHandler.ListTopics.
ListTopics(r) ==
    \/ SurveyLock(r, "list", "list_next")
    \/ SurveyNext(r, "list_next")

\* PubSubEngine.GetStats, called by RESTHandler.GetStats.
GetStats(r) ==
    \/ SurveyLock(r, "stats", "stats_next")
    \/ SurveyNext(r, "stats_next")
    \/ StatsSubscriberCount(r)

\* PubSubEngine.GetHealth, called by RESTHandler.GetHealth: the numbers of
\* topics and of registered clients, under the registry's read lock; the
\* response is written once the lock is released.
GetHealth(r) ==
    /\ loc[r].pc = "ctl_ready"
    /\ script[r] # <<>>
    /\ Head(script[r]).type = "health"
    /\ ~emuHeld
    /\ SetLoc(r, Replying(
          Response(Head(script[r]), 200, "",
                   {[topics |-> Cardinality({n \in TopicNames :
                                                engTopics[n] # 0}),
                     subscribers |-> Cardinality({i \in ClientIds :
                                                    engClients[i] # 0})]})))
    /\ script' = [script EXCEPT ![r] = Tail(@)]
    /\ UNCHANGED surfaceVars
    /\ UNCHANGED <<faultsLeft, engineVars, topicVars, chanVars, subVars,
                   msgVars, panicked, writerVars, asyncVars, superVars>>

(* ------------------------- connection runtime ------------------------- *)

\* The peer connects (in the runs in which the peers wait for the
\* operator, when the operator has had its responses).  HandleWebSocket,
\* lines 51-55: refuse the connection while shutting down.
Accept(c) ==
    /\ loc[c].pc = "new"
    /\ Len(replies) >= await
    /\ SetLoc(c, IdleLocals(IF shuttingDown THEN "refused" ELSE "register"))
    /\ UNCHANGED surfaceVars
    /\ UNCHANGED <<faultsLeft, engineVars, topicVars, chanVars, subVars,
                   script, msgVars, panicked, writerVars, asyncVars,
                   superVars>>

\* HandleWebSocket, lines 63-67: the client_id query parameter of the
\* upgrade request of connection c.
QueryClientID(c) == Head(script[c]).id

\* HandleWebSocket, lines 57-83: upgrade, create the subscriber, register it
\* under its client id (displacing a subscriber registered under the same
\* id), start the write pump.
RegisterClient(c) ==
    /\ loc[c].pc = "register"
    /\ ~emuHeld /\ ~RegistryReadLocked
    /\ script[c] # <<>>
    /\ Head(script[c]).type = "connect"
    /\ LET id == QueryClientID(c) IN
          /\ clientID' = [clientID EXCEPT ![c] = id]
          /\ engClients' = [engClients EXCEPT ![id] = c]
    /\ script' = [script EXCEPT ![c] = Tail(@)]
    /\ connOpen' = [connOpen EXCEPT ![c] = TRUE]
    /\ wpc' = [wpc EXCEPT ![c] = "select"]
    /\ loc' = [loc EXCEPT
                 ![c] = IdleLocals(IF IsEnabled THEN "auth_select"
                                   ELSE "ready"),
                 ![AuthGo(c)] = IdleLocals(IF IsEnabled THEN "auth_read"
                                           ELSE "absent")]
    /\ UNCHANGED surfaceVars
    /\ UNCHANGED <<faultsLeft, engTopics, shuttingDown, emuHeld, topicVars,
                   chanVars, subTopics, chanClosed, closed, msgVars, panicked,
                   inflight, ticksLeft, written, asyncVars, superVars>>

\* The request id the client puts on the frame.
RequestID(c) == (10 * c) + Len(script[c])

\* Subscriber s is inside handleSubscribe's replay: the Ack of its subscribe
\* request has been enqueued and the handler has not yet returned.
AckEnqueued(s) ==
    /\ loc[s].op.type = "subscribe"
    /\ loc[s].ret = "sub_replay"
    /\ \E i \in (loc[s].op.base + 1)..Len(enq[s]) :
          enq[s][i].type = "ack" /\ enq[s][i].rid = loc[s].op.rid

\* The last request connection s was served is an unsubscribe from topic n
\* that succeeded, its Ack enqueued.
UnsubscribeAcked(s, n) ==
    /\ loc[s].pc = "ready"
    /\ loc[s].op.type = "unsubscribe"
    /\ loc[s].op.topic = n
    /\ loc[s].tref # 0
    /\ \E i \in (loc[s].op.base + 1)..Len(enq[s]) :
          enq[s][i].type = "ack" /\ enq[s][i].rid = loc[s].op.rid

\* The topic object of the last topic registered under name n, 0 if there
\* was none: CreateTopic numbers the topic objects in the order it makes
\* them, and an object keeps its name.
LastTopic(n) ==
    IF \A o \in TopicObjs : tName[o] # n THEN 0
    ELSE CHOOSE o \in TopicObjs :
            tName[o] = n /\ \A o2 \in TopicObjs : tName[o2] = n => o2 <= o

\* A DeleteTopic of topic n has returned nil (part_001:98) and no
\* CreateTopic has registered the name again since the topic was taken
\* out of the registry.
DeleteServed(n) == LastTopic(n) # 0 /\ delOk[LastTopic(n)].returned

\* The subscribers in the snapshot of that DeleteTopic.
DeletedMembers(n) == delOk[LastTopic(n)].members

\* The state a subscribe or unsubscribe of connection c on topic n finds;
\* it is recorded on runs where c is the only connection.
MembershipState(c, n) ==
    LET o == engTopics[n] IN
    IF o = 0 \/ \E d \in Conns \ {c} : loc[d].pc # "absent" THEN NoPre
    ELSE [o |-> o, subs |-> tSubs[o], hist |-> GetLast(o, ringBufferSize),
          count |-> tCount[o], topics |-> subTopics[c]]

\* The messages of the publish frames that the other connections have read
\* and whose handlers have not returned to readPump.
PublishesInFlight(c) ==
    {loc[d].op.msg :
        d \in {x \in Conns \ {c} :
                  /\ loc[x].op.type = "publish"
                  /\ loc[x].pc \notin {"ready", "done", "panicked"}}}

\* The frame directly follows a served subscribe of c to the same topic.
FollowsSubscribe(c, f) ==
    /\ f.type \in {"unsubscribe", "publish"}
    /\ loc[c].op.type = "subscribe"
    /\ loc[c].op.topic = f.topic
    /\ loc[c].tref # 0

\* readPump, lines 171-174, handleMessage and the validation that opens
\* handleSubscribe, handleUnsubscribe and handlePublish: the first step of
\* the handler of a client frame.
Dispatch(c, f) ==
    LET op == [type |-> f.type, topic |-> f.topic, lastN |-> f.lastN,
               mid |-> f.mid,
               msg |-> IF f.type = "publish" THEN nextMsg ELSE 0,
               rid |-> RequestID(c),
               base |-> Len(enq[c]),
               after |-> IF f.type = "publish"
                         THEN {loc[s].op.rid : s \in {x \in Conns :
                                                         AckEnqueued(x)}}
                         ELSE {},
               unsub |-> IF f.type = "publish"
                         THEN {s \in Conns : UnsubscribeAcked(s, f.topic)}
                         ELSE {},
               gone |-> f.type = "publish" /\ DeleteServed(f.topic),
               pre |-> IF FollowsSubscribe(c, f) THEN loc[c].op.pre
                       ELSE IF /\ f.type \in {"subscribe", "unsubscribe",
                                           "publish"}
                               /\ f.topic \in TopicNames
                       THEN MembershipState(c, f.topic)
                       ELSE NoPre,
               paired |-> FollowsSubscribe(c, f),
               key |-> f.key,
               since |-> IF f.type = "subscribe" THEN nextMsg ELSE 0,
               racing |-> IF f.type = "subscribe" THEN PublishesInFlight(c)
                          ELSE {},
               read |-> 0]
        l == [IdleLocals("") EXCEPT !.op = op]
        bad == StartSend(l, c, ErrorMsg(op.rid, "BAD_REQUEST"), "ready")
    IN  CASE f.type = "auth" -> bad
          [] f.type = "subscribe" ->
                IF f.topic = "" THEN bad ELSE [l EXCEPT !.pc = "sub_topic"]
          [] f.type = "unsubscribe" ->
                IF f.topic = "" THEN bad ELSE [l EXCEPT !.pc = "unsub_topic"]
          [] f.type = "publish" ->
                IF f.topic = "" \/ f.mid \in {"none", "empty"}
                   \/ ~IsUUID(f.mid)
                THEN bad ELSE [l EXCEPT !.pc = "pub_topic"]
          [] f.type = "ping" -> StartSend(l, c, PongMsg(op.rid), "ready")
          [] OTHER -> bad

\* The peer of c has sent its next frame: in the staged runs the frames
\* after the first are sent after a pause, when every write pump is in a
\* write.
Sent(c) ==
    \/ ~staged
    \/ loc[c].op = NoOp
    \/ \A d \in Conns : loc[d].pc = "absent" \/ wpc[d] = "write"

\* readPump, lines 156-177, and handleMessage: ReadJSON returns the next
\* client frame and the frame is dispatched by its type.
ReadFrame(c) ==
    /\ loc[c].pc = "ready"
    /\ connOpen[c]
    /\ script[c] # <<>>
    /\ Sent(c)
    /\ script' = [script EXCEPT ![c] = Tail(@)]
    /\ SetLoc(c, Dispatch(c, Head(script[c])))
    /\ nextMsg' = IF Head(script[c]).type = "publish" THEN nextMsg + 1
                  ELSE nextMsg
    /\ publisher' = IF Head(script[c]).type = "publish"
                    THEN Append(publisher, c) ELSE publisher
    /\ UNCHANGED surfaceVars
    /\ UNCHANGED <<faultsLeft, engineVars, topicVars, chanVars, subVars,
                   panicked, writerVars, asyncVars, superVars>>

\* readPump, lines 158-164 and 95: ReadJSON fails (the peer went away, the
\* read deadline passed, or the transport was closed); the loop ends and
\* the deferred Conn.Close runs.
ReadError(c) ==
    /\ loc[c].pc = "ready"
    /\ IF connOpen[c]
       THEN faultsLeft > 0 /\ faultsLeft' = faultsLeft - 1
       ELSE UNCHANGED faultsLeft
    /\ connOpen' = [connOpen EXCEPT ![c] = FALSE]
    /\ SetLoc(c, IdleLocals("unreg_lock"))
    /\ UNCHANGED surfaceVars
    /\ UNCHANGED <<engineVars, topicVars, chanVars, clientID, subTopics,
                   chanClosed, closed, script, msgVars, panicked, writerVars,
                   asyncVars, superVars>>

\* Subscribe/Unsubscribe/Publish, first step: GetTopic; on a miss the
\* handler sends Error TOPIC_NOT_FOUND.
LookupTopic(c, from, to) ==
    LET l == loc[c] IN
    /\ l.pc = from
    /\ ~emuHeld
    /\ SetLoc(c, IF GetTopic(l.op.topic) = 0
                 THEN StartSend([l EXCEPT !.err = "ErrTopicNotFound"], c,
                                ErrorMsg(l.op.rid, "TOPIC_NOT_FOUND"),
                                "ready")
                 ELSE [l EXCEPT !.pc = to, !.tref = GetTopic(l.op.topic)])
    /\ UNCHANGED surfaceVars
    /\ UNCHANGED <<faultsLeft, engineVars, topicVars, chanVars, subVars,
                   script, msgVars, panicked, writerVars, asyncVars,
                   superVars>>

(* PubSubEngine.Subscribe and handleSubscribe *)

SubscribeGetTopic(c) == LookupTopic(c, "sub_topic", "sub_client")

\* Subscribe, lines 145-151: the subscriber registered under the client id.
SubscribeGetClient(c) ==
    LET l == loc[c] IN
    /\ l.pc = "sub_client"
    /\ ~emuHeld
    /\ SetLoc(c, IF engClients[clientID[c]] = 0
                 THEN StartSend([l EXCEPT !.err = "ErrClientNotFound"], c,
                                ErrorMsg(l.op.rid, "INTERNAL"), "ready")
                 ELSE [l EXCEPT !.pc = "sub_add",
                                !.sref = engClients[clientID[c]]])
    /\ UNCHANGED surfaceVars
    /\ UNCHANGED <<faultsLeft, engineVars, topicVars, chanVars, subVars,
                   script, msgVars, panicked, writerVars, asyncVars,
                   superVars>>

\* Subscribe, line 153: topic.AddSubscriber.
SubscribeAddSubscriber(c) ==
    LET l == loc[c] IN
    /\ l.pc = "sub_add"
    /\ ~TopicLocked(l.tref)
    /\ AddSubscriber(l.tref, l.sref)
    /\ SetLoc(c, [l EXCEPT !.pc = "sub_addtopic"])
    /\ UNCHANGED surfaceVars
    /\ UNCHANGED <<faultsLeft, engineVars, tName, tCount, rbMessages, rbIndex,
                   rbSize, pubLog, chanVars, subVars, script, msgVars,
                   panicked, writerVars, asyncVars, superVars>>

\* Subscribe, line 154: subscriber.AddTopic; with last_n <= 0 Subscribe
\* returns and handleSubscribe sends the Ack.
SubscribeAddTopic(c) ==
    LET l == loc[c] IN
    /\ l.pc = "sub_addtopic"
    /\ subTopics' = [subTopics EXCEPT ![l.sref] = @ \cup {l.op.topic}]
    /\ SetLoc(c, IF l.op.lastN > 0
                 THEN [l EXCEPT !.pc = "sub_hist"]
                 ELSE StartSend(l, c, AckMsg(l.op.rid, l.op.topic),
                                "sub_replay"))
    /\ UNCHANGED surfaceVars
    /\ UNCHANGED <<faultsLeft, engineVars, topicVars, chanVars, clientID,
                   chanClosed, closed, connOpen, script, msgVars, panicked,
                   writerVars, asyncVars, superVars>>

\* A Subscribe that asks the history for one message fewer than requested.
SubscribeGetLastNShort(c) ==
    LET l == loc[c] IN
    /\ l.pc = "sub_hist"
    /\ SetLoc(c, StartSend([l EXCEPT !.history =
                                GetLast(l.tref, l.op.lastN - 1),
                                      !.op.read = Len(pubLog[l.tref])],
                           c, AckMsg(l.op.rid, l.op.topic), "sub_replay"))
    /\ UNCHANGED surfaceVars
    /\ UNCHANGED <<faultsLeft, engineVars, topicVars, chanVars, subVars,
                   script, msgVars, panicked, writerVars, asyncVars,
                   superVars>>

\* Subscribe, lines 160-165: topic.GetLastN; then handleSubscribe sends the
\* Ack and, after it, one Event per historical message.
SubscribeGetLastN(c) ==
    LET l == loc[c] IN
    /\ l.pc = "sub_hist"
    /\ SetLoc(c, StartSend([l EXCEPT !.history = GetLast(l.tref, l.op.lastN),
                                      !.op.read = Len(pubLog[l.tref])],
                           c, AckMsg(l.op.rid, l.op.topic), "sub_replay"))
    /\ UNCHANGED surfaceVars
    /\ UNCHANGED <<faultsLeft, engineVars, topicVars, chanVars, subVars,
                   script, msgVars, panicked, writerVars, asyncVars,
                   superVars>>

(* PubSubEngine.Unsubscribe and handleUnsubscribe *)

UnsubscribeGetTopic(c) == LookupTopic(c, "unsub_topic", "unsub_remove")

\* Unsubscribe, line 175: topic.RemoveSubscriber(clientID).
UnsubscribeRemoveSubscriber(c) ==
    LET l == loc[c] IN
    /\ l.pc = "unsub_remove"
    /\ ~TopicLocked(l.tref)
    /\ RemoveSubscriber(l.tref, clientID[c])
    /\ SetLoc(c, [l EXCEPT !.pc = "unsub_client"])
    /\ UNCHANGED surfaceVars
    /\ UNCHANGED <<faultsLeft, engineVars, tName, tCount, rbMessages, rbIndex,
                   rbSize, pubLog, chanVars, subVars, script, msgVars,
                   panicked, writerVars, asyncVars, superVars>>

\* Unsubscribe, lines 177-179: the subscriber registered under the client
\* id; without one Unsubscribe returns and handleUnsubscribe sends the Ack.
UnsubscribeGetClient(c) ==
    LET l == loc[c] IN
    /\ l.pc = "unsub_client"
    /\ ~emuHeld
    /\ SetLoc(c, IF engClients[clientID[c]] = 0
                 THEN StartSend(l, c, AckMsg(l.op.rid, l.op.topic), "ready")
                 ELSE [l EXCEPT !.pc = "unsub_rmtopic",
                                !.sref = engClients[clientID[c]]])
    /\ UNCHANGED surfaceVars
    /\ UNCHANGED <<faultsLeft, engineVars, topicVars, chanVars, subVars,
                   script, msgVars, panicked, writerVars, asyncVars,
                   superVars>>

\* An Unsubscribe that leaves the subscriber's topic set as it is.
UnsubscribeKeepTopic(c) ==
    LET l == loc[c] IN
    /\ l.pc = "unsub_rmtopic"
    /\ SetLoc(c, StartSend(l, c, AckMsg(l.op.rid, l.op.topic), "ready"))
    /\ UNCHANGED surfaceVars
    /\ UNCHANGED <<faultsLeft, engineVars, topicVars, chanVars, subVars,
                   script, msgVars, panicked, writerVars, asyncVars,
                   superVars>>

\* Unsubscribe, lines 181-183: subscriber.RemoveTopic; then the Ack.
UnsubscribeRemoveTopic(c) ==
    LET l == loc[c] IN
    /\ l.pc = "unsub_rmtopic"
    /\ subTopics' = [subTopics EXCEPT ![l.sref] = @ \ {l.op.topic}]
    /\ SetLoc(c, StartSend(l, c, AckMsg(l.op.rid, l.op.topic), "ready"))
    /\ UNCHANGED surfaceVars
    /\ UNCHANGED <<faultsLeft, engineVars, topicVars, chanVars, clientID,
                   chanClosed, closed, connOpen, script, msgVars, panicked,
                   writerVars, asyncVars, superVars>>

(* PubSubEngine.Publish, Topic.PublishMessage and handlePublish *)

PublishGetTopic(c) == LookupTopic(c, "pub_topic", "pub_store")

\* PublishMessage, lines 85-86: take the topic lock and add the message to
\* the ring buffer.
PublishStore(c) ==
    LET l == loc[c] IN
    /\ l.pc = "pub_store"
    /\ ~TopicLocked(l.tref)
    /\ RingBufferAdd(l.tref, l.op.msg)
    /\ pubLog' = [pubLog EXCEPT ![l.tref] = Append(@, l.op.msg)]
    /\ SetLoc(c, [l EXCEPT !.pc = "pub_count"])
    /\ UNCHANGED surfaceVars
    /\ UNCHANGED <<faultsLeft, engineVars, tName, tSubs, tCount, chanVars,
                   subVars, script, msgVars, panicked, writerVars, asyncVars,
                   superVars>>

\* PublishMessage, lines 87-88: count the message and release the topic
\* lock.
PublishCount(c) ==
    LET l == loc[c] IN
    /\ l.pc = "pub_count"
    /\ tCount' = [tCount EXCEPT ![l.tref] = @ + 1]
    /\ SetLoc(c, [l EXCEPT !.pc = "pub_snap"])
    /\ UNCHANGED surfaceVars
    /\ UNCHANGED <<faultsLeft, engineVars, tName, tSubs, rbMessages, rbIndex,
                   rbSize, pubLog, chanVars, subVars, script, msgVars,
                   panicked, writerVars, asyncVars, superVars>>

\* PublishMessage, line 91: snapshot the subscribers under the topic's
\* read lock.  With no subscriber the fan-out loop is empty and Publish
\* returns.
PublishSnapshot(c) ==
    LET l == loc[c]
        m == [l EXCEPT !.left = GetSubscribers(l.tref),
                       !.members = {tSubs[l.tref][i] : i \in ClientIds} \ {0}]
    IN
    /\ l.pc = "pub_snap"
    /\ ~TopicLocked(l.tref)
    /\ SetLoc(c, [m EXCEPT !.pc = IF m.left = {} THEN "pub_ret"
                                  ELSE "pub_next"])
    /\ UNCHANGED surfaceVars
    /\ UNCHANGED <<faultsLeft, engineVars, topicVars, chanVars, subVars,
                   script, msgVars, panicked, writerVars, asyncVars,
                   superVars>>

\* PublishMessage, lines 100-105: the next subscriber of the snapshot (in
\* map order, which is arbitrary); a closed one is skipped, an open one is
\* sent the Event.
PublishNext(c) ==
    LET l == loc[c] IN
    /\ l.pc = "pub_next"
    /\ \E s \in l.left :
          LET m == [l EXCEPT !.left = @ \ {s}] IN
          SetLoc(c, IF IsClosed(s)
                    THEN AfterSend(c, [m EXCEPT !.ret = "pub_loop"])
                    ELSE StartSend(m, s, LiveEvent(tName[l.tref], l.op.msg),
                                   "pub_loop"))
    /\ UNCHANGED surfaceVars
    /\ UNCHANGED <<faultsLeft, engineVars, topicVars, chanVars, subVars,
                   script, msgVars, panicked, writerVars, asyncVars,
                   superVars>>

(* Subscriber.Close, by its three steps *)

\* Close, lines 176-182: under the mutex, the first caller sets closed.
CloseLock(s) == closed' = [closed EXCEPT ![s] = TRUE]

\* Close, line 184: close(s.MessageChan).
CloseChan(s) == chanClosed' = [chanClosed EXCEPT ![s] = TRUE]

\* Close, line 185: s.Conn.Close().
CloseConn(s) == connOpen' = [connOpen EXCEPT ![s] = FALSE]

(* PubSubEngine.UnregisterClient, called when readPump has returned *)

\* UnregisterClient, lines 215-223: take the subscriber registered under
\* the client id out of the registry; return if there is none.
UnregisterLock(c) ==
    LET l == loc[c] IN
    /\ l.pc = "unreg_lock"
    /\ ~emuHeld /\ ~RegistryReadLocked
    /\ IF engClients[clientID[c]] = 0
       THEN SetLoc(c, IdleLocals("done")) /\ UNCHANGED engClients
       ELSE /\ engClients' = [engClients EXCEPT ![clientID[c]] = 0]
            /\ SetLoc(c, [l EXCEPT !.pc = "unreg_topics",
                                   !.sref = engClients[clientID[c]]])
    /\ UNCHANGED surfaceVars
    /\ UNCHANGED <<faultsLeft, engTopics, shuttingDown, emuHeld, topicVars,
                   chanVars, subVars, script, msgVars, panicked, writerVars,
                   asyncVars, superVars>>

\* UnregisterClient, line 228: subscriber.GetTopics().
UnregisterGetTopics(c) ==
    LET l == loc[c] IN
    /\ l.pc = "unreg_topics"
    /\ SetLoc(c, [l EXCEPT !.left = subTopics[l.sref],
                           !.pc = IF subTopics[l.sref] = {}
                                  THEN "close_lock" ELSE "unreg_loop"])
    /\ UNCHANGED surfaceVars
    /\ UNCHANGED <<faultsLeft, engineVars, topicVars, chanVars, subVars,
                   script, msgVars, panicked, writerVars, asyncVars,
                   superVars>>

\* UnregisterClient, lines 231-232: GetTopic for the next topic name.
UnregisterGetTopic(c) ==
    LET l == loc[c] IN
    /\ l.pc = "unreg_loop"
    /\ ~emuHeld
    /\ \E n \in l.left :
          SetLoc(c, IF GetTopic(n) # 0
                    THEN [l EXCEPT !.left = @ \ {n}, !.tref = GetTopic(n),
                                   !.pc = "unreg_remove"]
                    ELSE [l EXCEPT !.left = @ \ {n},
                                   !.pc = IF l.left = {n} THEN "close_lock"
                                          ELSE "unreg_loop"])
    /\ UNCHANGED surfaceVars
    /\ UNCHANGED <<faultsLeft, engineVars, topicVars, chanVars, subVars,
                   script, msgVars, panicked, writerVars, asyncVars,
                   superVars>>

\* UnregisterClient, line 233: topic.RemoveSubscriber(clientID).
UnregisterRemoveSubscriber(c) ==
    LET l == loc[c] IN
    /\ l.pc = "unreg_remove"
    /\ ~TopicLocked(l.tref)
    /\ RemoveSubscriber(l.tref, clientID[c])
    /\ SetLoc(c, [l EXCEPT !.pc = IF l.left = {} THEN "close_lock"
                                  ELSE "unreg_loop"])
    /\ UNCHANGED surfaceVars
    /\ UNCHANGED <<faultsLeft, engineVars, tName, tCount, rbMessages, rbIndex,
                   rbSize, pubLog, chanVars, subVars, script, msgVars,
                   panicked, writerVars, asyncVars, superVars>>

\* UnregisterClient, line 237: subscriber.Close().
UnregisterCloseLock(c) ==
    LET l == loc[c] IN
    /\ l.pc = "close_lock"
    /\ IF closed[l.sref]
       THEN SetLoc(c, IdleLocals("done")) /\ UNCHANGED closed
       ELSE CloseLock(l.sref) /\ SetLoc(c, [l EXCEPT !.pc = "close_chan"])
    /\ UNCHANGED surfaceVars
    /\ UNCHANGED <<faultsLeft, engineVars, topicVars, chanVars, clientID,
                   subTopics, chanClosed, connOpen, script, msgVars, panicked,
                   writerVars, asyncVars, superVars>>

UnregisterCloseChan(c) ==
    LET l == loc[c] IN
    /\ l.pc = "close_chan"
    /\ CloseChan(l.sref)
    /\ SetLoc(c, [l EXCEPT !.pc = "close_conn"])
    /\ UNCHANGED surfaceVars
    /\ UNCHANGED <<faultsLeft, engineVars, topicVars, chanVars, clientID,
                   subTopics, closed, connOpen, script, msgVars, panicked,
                   writerVars, asyncVars, superVars>>

UnregisterCloseConn(c) ==
    LET l == loc[c] IN
    /\ l.pc = "close_conn"
    /\ CloseConn(l.sref)
    /\ SetLoc(c, IdleLocals("done"))
    /\ UNCHANGED surfaceVars
    /\ UNCHANGED <<faultsLeft, engineVars, topicVars, chanVars, clientID,
                   subTopics, chanClosed, closed, script, msgVars, panicked,
                   writerVars, asyncVars, superVars>>

(* ----------------------------- write pump ----------------------------- *)

\* Conn.WriteJSON: on a closed transport the write fails; on an open one it
\* succeeds, if the peer reads, or fails (the peer is gone, the write
\* deadline passed); while the peer does not read it does not return.
WriteOutcomes(s) ==
    IF connOpen[s]
    THEN (IF s \in unread THEN {} ELSE {TRUE})
            \cup (IF faultsLeft > 0 THEN {FALSE} ELSE {})
    ELSE {FALSE}

\* The faults still to come, after a write with outcome ok.
FaultsAfterWrite(s, ok) ==
    IF connOpen[s] /\ ~ok THEN faultsLeft - 1 ELSE faultsLeft

\* A receive that takes the newest buffered frame.
WriterReceiveNewest(s) ==
    /\ wpc[s] = "select"
    /\ Len(queue[s]) > 0
    /\ inflight' = [inflight EXCEPT ![s] = queue[s][Len(queue[s])]]
    /\ queue' = [queue EXCEPT ![s] = SubSeq(@, 1, Len(@) - 1)]
    /\ wpc' = [wpc EXCEPT ![s] = "write"]
    /\ UNCHANGED surfaceVars
    /\ UNCHANGED <<faultsLeft, engineVars, topicVars, enq, dropped, subVars,
                   handlerVars, ticksLeft, written, asyncVars, superVars>>

\* WritePump, line 120: a frame is received from MessageChan.
WriterReceive(s) ==
    /\ wpc[s] = "select"
    /\ Len(queue[s]) > 0
    /\ inflight' = [inflight EXCEPT ![s] = Head(queue[s])]
    /\ queue' = [queue EXCEPT ![s] = Tail(@)]
    /\ wpc' = [wpc EXCEPT ![s] = "write"]
    /\ UNCHANGED surfaceVars
    /\ UNCHANGED <<faultsLeft, engineVars, topicVars, enq, dropped, subVars,
                   handlerVars, ticksLeft, written, asyncVars, superVars>>

\* WritePump, lines 121-124: MessageChan is closed and drained.
WriterChanClosed(s) ==
    /\ wpc[s] = "select"
    /\ Len(queue[s]) = 0
    /\ chanClosed[s]
    /\ wpc' = [wpc EXCEPT ![s] = "close_lock"]
    /\ UNCHANGED surfaceVars
    /\ UNCHANGED <<faultsLeft, engineVars, topicVars, chanVars, subVars,
                   handlerVars, inflight, ticksLeft, written, asyncVars,
                   superVars>>

\* A write pump that goes on with its loop when a write has failed.
WriterWriteGoesOn(s) ==
    /\ wpc[s] = "write"
    /\ \E ok \in WriteOutcomes(s) :
          /\ written' = [written EXCEPT ![s] =
                            IF ok THEN Append(@, inflight[s]) ELSE @]
          /\ wpc' = [wpc EXCEPT ![s] = "select"]
          /\ faultsLeft' = FaultsAfterWrite(s, ok)
    /\ inflight' = [inflight EXCEPT ![s] = NoFrame]
    /\ UNCHANGED surfaceVars
    /\ UNCHANGED <<engineVars, topicVars, chanVars, subVars, handlerVars,
                   ticksLeft, asyncVars, superVars>>

\* WritePump, lines 126-130: write the received frame to the transport.
WriterWrite(s) ==
    /\ wpc[s] = "write"
    /\ \E ok \in WriteOutcomes(s) :
          /\ written' = [written EXCEPT ![s] =
                            IF ok THEN Append(@, inflight[s]) ELSE @]
          /\ wpc' = [wpc EXCEPT ![s] = IF ok THEN "select" ELSE "close_lock"]
          /\ faultsLeft' = FaultsAfterWrite(s, ok)
    /\ inflight' = [inflight EXCEPT ![s] = NoFrame]
    /\ UNCHANGED surfaceVars
    /\ UNCHANGED <<engineVars, topicVars, chanVars, subVars, handlerVars,
                   ticksLeft, asyncVars, superVars>>

\* WritePump, lines 132-143: on a tick, write a heartbeat to the transport.
WriterTick(s) ==
    /\ wpc[s] = "select"
    /\ ticksLeft > 0
    /\ ticksLeft' = ticksLeft - 1
    /\ \E ok \in WriteOutcomes(s) :
          /\ written' = [written EXCEPT ![s] =
                            IF ok THEN Append(@, Heartbeat) ELSE @]
          /\ wpc' = [wpc EXCEPT ![s] = IF ok THEN "select" ELSE "close_lock"]
          /\ faultsLeft' = FaultsAfterWrite(s, ok)
    /\ UNCHANGED surfaceVars
    /\ UNCHANGED <<engineVars, topicVars, chanVars, subVars, handlerVars,
                   inflight, asyncVars, superVars>>

\* A deferred Close that does not look at the closed flag.
WriterCloseAgain(s) ==
    /\ wpc[s] = "close_lock"
    /\ CloseLock(s)
    /\ wpc' = [wpc EXCEPT ![s] = "close_chan"]
    /\ UNCHANGED surfaceVars
    /\ UNCHANGED <<faultsLeft, engineVars, topicVars, chanVars, clientID,
                   subTopics, chanClosed, connOpen, handlerVars, inflight,
                   ticksLeft, written, asyncVars, superVars>>

\* WritePump, lines 113-116: the deferred s.Close().
WriterCloseLock(s) ==
    /\ wpc[s] = "close_lock"
    /\ IF closed[s]
       THEN wpc' = [wpc EXCEPT ![s] = "done"] /\ UNCHANGED closed
       ELSE CloseLock(s) /\ wpc' = [wpc EXCEPT ![s] = "close_chan"]
    /\ UNCHANGED surfaceVars
    /\ UNCHANGED <<faultsLeft, engineVars, topicVars, chanVars, clientID,
                   subTopics, chanClosed, connOpen, handlerVars, inflight,
                   ticksLeft, written, asyncVars, superVars>>

WriterCloseChan(s) ==
    /\ wpc[s] = "close_chan"
    /\ CloseChan(s)
    /\ wpc' = [wpc EXCEPT ![s] = "close_conn"]
    /\ UNCHANGED surfaceVars
    /\ UNCHANGED <<faultsLeft, engineVars, topicVars, chanVars, clientID,
                   subTopics, closed, connOpen, handlerVars, inflight,
                   ticksLeft, written, asyncVars, superVars>>

WriterCloseConn(s) ==
    /\ wpc[s] = "close_conn"
    /\ CloseConn(s)
    /\ wpc' = [wpc EXCEPT ![s] = "done"]
    /\ UNCHANGED surfaceVars
    /\ UNCHANGED <<faultsLeft, engineVars, topicVars, chanVars, clientID,
                   subTopics, chanClosed, closed, handlerVars, inflight,
                   ticksLeft, written, asyncVars, superVars>>

(* ------------- `go s.Close()` started by SendMessage ------------------ *)

AsyncCloseLock(s) ==
    /\ asyncPending[s] > 0
    /\ asyncPending' = [asyncPending EXCEPT ![s] = @ - 1]
    /\ IF closed[s]
       THEN UNCHANGED <<closed, asyncStage>>
       ELSE CloseLock(s) /\ asyncStage' = [asyncStage EXCEPT ![s] = "chan"]
    /\ UNCHANGED surfaceVars
    /\ UNCHANGED <<faultsLeft, engineVars, topicVars, chanVars, clientID,
                   subTopics, chanClosed, connOpen, handlerVars, writerVars,
                   superVars>>

AsyncCloseChan(s) ==
    /\ asyncStage[s] = "chan"
    /\ CloseChan(s)
    /\ asyncStage' = [asyncStage EXCEPT ![s] = "conn"]
    /\ UNCHANGED surfaceVars
    /\ UNCHANGED <<faultsLeft, engineVars, topicVars, chanVars, clientID,
                   subTopics, closed, connOpen, handlerVars, writerVars,
                   asyncPending, superVars>>

AsyncCloseConn(s) ==
    /\ asyncStage[s] = "conn"
    /\ CloseConn(s)
    /\ asyncStage' = [asyncStage EXCEPT ![s] = "none"]
    /\ UNCHANGED surfaceVars
    /\ UNCHANGED <<faultsLeft, engineVars, topicVars, chanVars, clientID,
                   subTopics, chanClosed, closed, handlerVars, writerVars,
                   asyncPending, superVars>>

(* ------------------------ process supervisor -------------------------- *)

\* Shutdown, line 289: close(e.shutdown), on the interrupt signal.
ShutdownSignal ==
    /\ sdpc = "idle"
    /\ faultsLeft > 0
    /\ faultsLeft' = faultsLeft - 1
    /\ shuttingDown' = TRUE
    /\ sdpc' = "lock"
    /\ UNCHANGED surfaceVars
    /\ UNCHANGED <<engTopics, engClients, emuHeld, topicVars, chanVars,
                   subVars, handlerVars, writerVars, asyncVars, sdLeft,
                   sdCur>>

\* A Shutdown whose range over Clients loses the map's first entry.
ShutdownLockSkipFirst ==
    LET all == {engClients[i] : i \in ClientIds} \ {0} IN
    /\ sdpc = "lock"
    /\ ~emuHeld /\ ~RegistryReadLocked
    /\ emuHeld' = TRUE
    /\ sdLeft' = {s \in all : \E t \in all : t < s}
    /\ sdpc' = "loop"
    /\ UNCHANGED surfaceVars
    /\ UNCHANGED <<faultsLeft, engTopics, engClients, shuttingDown, topicVars,
                   chanVars, subVars, handlerVars, writerVars, asyncVars,
                   sdCur>>

\* Shutdown, lines 291-295: take the registry lock and range over Clients.
ShutdownLock ==
    /\ sdpc = "lock"
    /\ ~emuHeld /\ ~RegistryReadLocked
    /\ emuHeld' = TRUE
    /\ sdLeft' = {engClients[i] : i \in ClientIds} \ {0}
    /\ sdpc' = "loop"
    /\ UNCHANGED surfaceVars
    /\ UNCHANGED <<faultsLeft, engTopics, engClients, shuttingDown, topicVars,
                   chanVars, subVars, handlerVars, writerVars, asyncVars,
                   sdCur>>

\* Shutdown, line 297: client.Close() for the next client; after the last
\* one the registry lock is released.
ShutdownCloseLock ==
    /\ sdpc = "loop"
    /\ IF sdLeft = {}
       THEN /\ emuHeld' = FALSE
            /\ sdpc' = "done"
            /\ UNCHANGED <<closed, sdLeft, sdCur>>
       ELSE \E s \in sdLeft :
               /\ sdLeft' = sdLeft \ {s}
               /\ IF closed[s]
                  THEN UNCHANGED <<closed, sdCur, sdpc>>
                  ELSE CloseLock(s) /\ sdCur' = s /\ sdpc' = "close_chan"
               /\ UNCHANGED emuHeld
    /\ UNCHANGED surfaceVars
    /\ UNCHANGED <<faultsLeft, engTopics, engClients, shuttingDown, topicVars,
                   chanVars, clientID, subTopics, chanClosed, connOpen,
                   handlerVars, writerVars, asyncVars>>

ShutdownCloseChan ==
    /\ sdpc = "close_chan"
    /\ CloseChan(sdCur)
    /\ sdpc' = "close_conn"
    /\ UNCHANGED surfaceVars
    /\ UNCHANGED <<faultsLeft, engineVars, topicVars, chanVars, clientID,
                   subTopics, closed, connOpen, handlerVars, writerVars,
                   asyncVars, sdLeft, sdCur>>

ShutdownCloseConn ==
    /\ sdpc = "close_conn"
    /\ CloseConn(sdCur)
    /\ sdpc' = "loop"
    /\ sdCur' = 0
    /\ UNCHANGED surfaceVars
    /\ UNCHANGED <<faultsLeft, engineVars, topicVars, chanVars, clientID,
                   subTopics, chanClosed, closed, handlerVars, writerVars,
                   asyncVars, sdLeft>>

(* --------------------------- specification ---------------------------- *)

\* Publish returns nil (part_001, end of Publish) and handlePublish sends
\* the Ack; the call is counted as a success for its topic object.
PublishReturn(c) ==
    LET l == loc[c] IN
    /\ l.pc = "pub_ret"
    /\ pubOk' = [pubOk EXCEPT ![l.tref] = @ + 1]
    /\ SetLoc(c, StartSend(l, c, AckMsg(l.op.rid, l.op.topic), "ready"))
    /\ UNCHANGED <<envVars, replies, delOk>>
    /\ UNCHANGED <<faultsLeft, engineVars, topicVars, chanVars, subVars,
                   script, msgVars, panicked, writerVars, asyncVars,
                   superVars>>

\* readPump, lines 108-113: the goroutine reads the first frame; a frame
\* that is not an auth frame is answered UNAUTHORIZED, an auth frame with
\* a key the validator refuses INVALID_API_KEY, and an auth frame with a key
\* it accepts the Ack "authenticated" (lines 115-135).
AuthRead(c) ==
    LET f == Head(script[c])
        l == [IdleLocals("") EXCEPT
                 !.op = [NoOp EXCEPT !.type = f.type, !.key = f.key,
                                     !.rid = RequestID(c),
                                     !.base = Len(enq[c])]]
    IN
    /\ loc[AuthGo(c)].pc = "auth_read"
    /\ connOpen[c]
    /\ script[c] # <<>>
    /\ script' = [script EXCEPT ![c] = Tail(@)]
    /\ SetLoc(AuthGo(c),
              IF f.type # "auth"
              THEN StartSend(l, c, ErrorMsg(l.op.rid, "UNAUTHORIZED"),
                             "auth_false")
              ELSE IF ~ValidateKey(f.key)
              THEN StartSend(l, c, ErrorMsg(l.op.rid, "INVALID_API_KEY"),
                             "auth_false")
              ELSE StartSend(l, c, AuthenticatedMsg(l.op.rid), "auth_true"))
    /\ UNCHANGED surfaceVars
    /\ UNCHANGED <<faultsLeft, engineVars, topicVars, chanVars, subVars,
                   msgVars, panicked, writerVars, asyncVars, superVars>>

\* readPump, lines 110-113: ReadJSON fails, the peer having gone (a fault)
\* or the connection having been closed; false goes to authChan.  The
\* goroutine does not close the connection.
AuthReadError(c) ==
    /\ loc[AuthGo(c)].pc = "auth_read"
    /\ IF connOpen[c]
       THEN faultsLeft > 0 /\ faultsLeft' = faultsLeft - 1
       ELSE UNCHANGED faultsLeft
    /\ SetLoc(AuthGo(c), IdleLocals("auth_false"))
    /\ UNCHANGED surfaceVars
    /\ UNCHANGED <<engineVars, topicVars, chanVars, subVars, script, msgVars,
                   panicked, writerVars, asyncVars, superVars>>

\* A select that goes on to the main loop whatever authChan delivers.
AuthSelectAny(c) ==
    /\ loc[c].pc = "auth_select"
    /\ loc[AuthGo(c)].pc \in {"auth_true", "auth_false"}
    /\ loc' = [loc EXCEPT
                 ![c] = IdleLocals("ready"),
                 ![AuthGo(c)] = [@ EXCEPT !.pc = "auth_done"]]
    /\ UNCHANGED surfaceVars
    /\ UNCHANGED <<faultsLeft, engineVars, topicVars, chanVars, subVars,
                   script, msgVars, panicked, writerVars, asyncVars,
                   superVars>>

\* readPump, lines 138-145: the select receives from authChan; on true the
\* main loop starts, on false readPump returns.
AuthSelect(c) ==
    /\ loc[c].pc = "auth_select"
    /\ loc[AuthGo(c)].pc \in {"auth_true", "auth_false"}
    /\ loc' = [loc EXCEPT
                 ![c] = IdleLocals(IF loc[AuthGo(c)].pc = "auth_true"
                                   THEN "ready" ELSE "auth_end"),
                 ![AuthGo(c)] = [@ EXCEPT !.pc = "auth_done"]]
    /\ UNCHANGED surfaceVars
    /\ UNCHANGED <<faultsLeft, engineVars, topicVars, chanVars, subVars,
                   script, msgVars, panicked, writerVars, asyncVars,
                   superVars>>

\* readPump, lines 146-150: the select receives from authTimeout.C, the
\* timer having fired, and the timeout is reported.  The timer runs from
\* the start of readPump whatever the goroutine is doing, and a select
\* with both channels ready takes either.
AuthTimeout(c) ==
    /\ loc[c].pc = "auth_select"
    /\ SetLoc(c, StartSend([IdleLocals("") EXCEPT
                               !.op = [NoOp EXCEPT !.type = "timeout",
                                                   !.base = Len(enq[c])]],
                           c, ErrorMsg(NoRid, "UNAUTHORIZED"), "auth_end"))
    /\ UNCHANGED surfaceVars
    /\ UNCHANGED <<faultsLeft, engineVars, topicVars, chanVars, subVars,
                   script, msgVars, panicked, writerVars, asyncVars,
                   superVars>>

\* readPump returns from the auth gate: the deferred sub.Conn.Close()
\* (line 95); HandleWebSocket goes on to UnregisterClient.
AuthReturn(c) ==
    /\ loc[c].pc = "auth_end"
    /\ connOpen' = [connOpen EXCEPT ![c] = FALSE]
    /\ SetLoc(c, IdleLocals("unreg_lock"))
    /\ UNCHANGED surfaceVars
    /\ UNCHANGED <<faultsLeft, engineVars, topicVars, chanVars, clientID,
                   subTopics, chanClosed, closed, script, msgVars, panicked,
                   writerVars, asyncVars, superVars>>

Handler(c) ==
    \/ Accept(c)
    \/ RegisterClient(c)
    \/ AuthRead(c)
    \/ AuthReadError(c)
    \/ SendMessage(AuthGo(c))
    \/ AuthSelect(c)
    \/ AuthTimeout(c)
    \/ AuthReturn(c)
    \/ ReadFrame(c)
    \/ ReadError(c)
    \/ SubscribeGetTopic(c)
    \/ SubscribeGetClient(c)
    \/ SubscribeAddSubscriber(c)
    \/ SubscribeAddTopic(c)
    \/ SubscribeGetLastN(c)
    \/ UnsubscribeGetTopic(c)
    \/ UnsubscribeRemoveSubscriber(c)
    \/ UnsubscribeGetClient(c)
    \/ UnsubscribeRemoveTopic(c)
    \/ PublishGetTopic(c)
    \/ PublishStore(c)
    \/ PublishCount(c)
    \/ PublishSnapshot(c)
    \/ PublishNext(c)
    \/ PublishReturn(c)
    \/ SendMessage(c)
    \/ UnregisterLock(c)
    \/ UnregisterGetTopics(c)
    \/ UnregisterGetTopic(c)
    \/ UnregisterRemoveSubscriber(c)
    \/ UnregisterCloseLock(c)
    \/ UnregisterCloseChan(c)
    \/ UnregisterCloseConn(c)

WritePump(s) ==
    \/ WriterReceive(s)
    \/ WriterChanClosed(s)
    \/ WriterWrite(s)
    \/ WriterTick(s)
    \/ WriterCloseLock(s)
    \/ WriterCloseChan(s)
    \/ WriterCloseConn(s)

AsyncClose(s) ==
    \/ AsyncCloseLock(s)
    \/ AsyncCloseChan(s)
    \/ AsyncCloseConn(s)

Shutdown ==
    \/ ShutdownSignal
    \/ ShutdownLock
    \/ ShutdownCloseLock
    \/ ShutdownCloseChan
    \/ ShutdownCloseConn

Next ==
    \/ \E r \in Running(Rests) : AuthMiddlewareAbort(r)
    \/ \E r \in Running(Rests) : CreateTopicBadRequest(r)
    \/ \E r \in Running(Rests) : CreateTopic(r)
    \/ \E r \in Running(Rests) : DeleteTopic(r)
    \/ \E r \in Running(Rests) : ListTopics(r)
    \/ \E r \in Running(Rests) : GetStats(r)
    \/ \E r \in Running(Rests) : GetHealth(r)
    \/ \E r \in Running(Rests) : Reply(r)
    \/ \E c \in Running(Conns) : Handler(c)
    \/ \E s \in Running(Conns) : WritePump(s)
    \/ \E s \in Running(Conns) : AsyncClose(s)
    \/ \E p \in Running({0}) : Shutdown

Spec == Init /\ [][Next]_vars

(* ------------------------------ properties ---------------------------- *)

Min2(a, b) == IF a < b THEN a ELSE b

\* The last n elements of a sequence.
LastOf(q, n) == SubSeq(q, Len(q) - n + 1, Len(q))

SendPcs == {"sm_lock", "sm_try", "sm_drop", "sm_retry", "sm_err"}

\* Some topic has been taken out of the registry by DeleteTopic.
TopicDeleted ==
    \E o \in TopicObjs : tName[o] # "" /\ engTopics[tName[o]] # o

\* Connection c is the only one of the run and no topic has been deleted:
\* no goroutine but c's own calls SendMessage.
NoOtherPeer(c) ==
    /\ \A d \in Conns \ {c} : loc[d].pc = "absent"
    /\ ~TopicDeleted

\* Subscriber s has the fan-out Event of message m in its enqueue log.
HasLiveEvent(s, m) ==
    \E i \in 1..Len(enq[s]) :
        enq[s][i].type = "event" /\ enq[s][i].live /\ enq[s][i].msg = m

\* PublishMessage has returned nil to handlePublish of connection c, which
\* is sending its Ack.
PublishReturned(c) ==
    /\ loc[c].op.type = "publish"
    /\ loc[c].pc \in SendPcs
    /\ loc[c].frame.type = "ack"

\* The write pump of s has never received a frame from MessageChan.
Stalled(s) ==
    /\ wpc[s] = "select"
    /\ inflight[s] = NoFrame
    /\ \A i \in 1..Len(written[s]) : written[s][i] = Heartbeat

\* No SendMessage on s is between its drop-oldest step and its retry.
NoSendMidOverflow(s) ==
    \A d \in Procs :
        loc[d].pc \in {"sm_retry", "sm_err"} => loc[d].to # s

(* C1 *)

\* C1, as stated: when a publish has returned success, every subscriber
\* that was in the topic's subscriber set at the snapshot, the publisher's
\* own included, has the Event in its enqueue log.
C1_EveryMemberEnqueued ==
    \A c \in Conns :
        PublishReturned(c) =>
            \A s \in loc[c].members : HasLiveEvent(s, loc[c].op.msg)

\* C1, amended: when a publish has returned success, every subscriber that
\* was in the topic's subscriber set at the snapshot, the publisher's own
\* included, has the Event in its enqueue log, unless it is closed or its
\* queue overflowed into SLOW_CONSUMER and its asynchronous close is
\* scheduled.
C1_EveryOpenMemberEnqueued ==
    \A c \in Conns :
        PublishReturned(c) =>
            \A s \in loc[c].members :
                \/ HasLiveEvent(s, loc[c].op.msg)
                \/ closed[s]
                \/ asyncPending[s] > 0

\* A publish has returned with the publisher among two open members, each
\* holding the Event.
C1_Witness ==
    \E c \in Conns :
        /\ PublishReturned(c)
        /\ c \in loc[c].members
        /\ Cardinality(loc[c].members) >= 2
        /\ \A s \in loc[c].members :
              ~closed[s] /\ HasLiveEvent(s, loc[c].op.msg)

(* C2 *)

\* C2: drop-oldest.  With the write pump stalled and no enqueue caught
\* between its drop and its retry, the queue of an open subscriber holds
\* the most recently enqueued frames, in enqueue order: all of them while
\* they fit, the queueSize most recent ones afterwards.  The newest frame is
\* therefore never the one dropped.
C2_QueueHoldsMostRecent ==
    \A s \in Conns :
        (Stalled(s) /\ ~closed[s] /\ NoSendMidOverflow(s)) =>
            queue[s] = LastOf(enq[s], Min2(capacity, Len(enq[s])))

\* More than queueSize frames were enqueued on a stalled subscriber and the
\* oldest ones were dropped.
C2_Witness ==
    \E s \in Conns :
        /\ Stalled(s) /\ ~closed[s] /\ NoSendMidOverflow(s)
        /\ Len(enq[s]) > capacity + 1
        /\ dropped[s] = Len(enq[s]) - capacity
        /\ Len(queue[s]) = capacity

(* C3 *)

\* Every handler is between two requests and the peers have nothing left
\* to send.
AllRequestsServed ==
    \A d \in Conns :
        loc[d].pc = "absent" \/ (loc[d].pc = "ready" /\ script[d] = <<>>)

\* Subscriber s sits in topic o, its write pump stalled, when queueSize + 2
\* publishes to o have been served.
PublishedPastCapacity(s, o) ==
    /\ AllRequestsServed
    /\ Stalled(s)
    /\ clientID[s] # 0
    /\ tSubs[o][clientID[s]] = s
    /\ tCount[o] >= capacity + 2

\* C3, as stated: with A subscribed and its write pump stalled, the publish
\* that follows the first overflow (the fourth, with a queue of two) raises
\* SLOW_CONSUMER for A and A is closed.
C3_FourthPublishDisconnects ==
    \A s \in Conns : \A o \in TopicObjs :
        PublishedPastCapacity(s, o) => (closed[s] \/ asyncPending[s] > 0)

\* C3, amended: while a connection is the only peer, so that no enqueue
\* runs concurrently with another, no SendMessage on it reaches the
\* SLOW_CONSUMER branch, however many publishes hit its full queue: every
\* one of them drops the oldest frame and enqueues its own, and nothing
\* schedules the asynchronous close.
C3_NoSlowConsumerWithoutConcurrentEnqueue ==
    \A c \in Conns :
        NoOtherPeer(c) =>
            /\ loc[c].pc # "sm_err"
            /\ asyncPending[c] = 0
            /\ asyncStage[c] = "none"
            /\ \A i \in 1..Len(enq[c]) : enq[c][i].code # "SLOW_CONSUMER"

\* The only peer has published past the capacity of its own stalled queue:
\* the queue is full and the subscriber is still open.
C3_Witness ==
    \E c \in Conns : \E o \in TopicObjs :
        /\ NoOtherPeer(c)
        /\ PublishedPastCapacity(c, o)
        /\ Len(queue[c]) = capacity
        /\ dropped[c] >= 2
        /\ ~closed[c]

(* C4 *)

\* The handler of c is serving a subscribe whose topic exists and has not
\* yet enqueued its Ack.
SubscribeAckPending(c) ==
    /\ loc[c].op.type = "subscribe"
    /\ \/ loc[c].pc \in {"sub_client", "sub_add", "sub_addtopic", "sub_hist"}
       \/ loc[c].pc \in SendPcs /\ loc[c].frame.type = "ack"

\* C4: while the Ack of a subscribe request has not been enqueued, no Event
\* of the topic, replay or live, has been enqueued on the subscriber since
\* the request was read.
C4_AckBeforeEvents ==
    \A c \in Conns :
        SubscribeAckPending(c) =>
            \A i \in (loc[c].op.base + 1)..Len(enq[c]) :
                ~(enq[c][i].type = "event"
                  /\ enq[c][i].topic = loc[c].op.topic)

(* C5 *)

\* Subscriber s still has replay Events of its subscribe to enqueue.
ReplayUnfinished(s) ==
    /\ AckEnqueued(s)
    /\ loc[s].pc \in SendPcs
    /\ loc[s].frame.type = "event"

\* C5: a publish that was read after the Ack of a subscribe had been
\* enqueued on S does not enqueue its live Event on S while replay Events
\* of that subscribe are still to be enqueued.
C5_LiveAfterReplay ==
    [][\A d \in Conns : \A s \in Conns \ {d} :
          (/\ loc[d].op.type = "publish"
           /\ loc[d].pc \in {"sm_try", "sm_retry"}
           /\ loc[d].to = s
           /\ loc[d].frame.live
           /\ loc[s].op.rid \in loc[d].op.after
           /\ ReplayUnfinished(s))
          => ~(Len(enq'[s]) > Len(enq[s]) /\ enq'[s][Len(enq'[s])].live)]_vars

(* C6 *)

\* The most recent min(k, n, R) of the n messages published to a topic.
ReplayWindow(log, k) ==
    LastOf(log, Min2(IF k > 0 THEN k ELSE 0,
                     Min2(Len(log), ringBufferSize)))

\* The only peer has just been served a subscribe on an existing topic and
\* its subscriber is open.
SubscribeServedAlone(c) ==
    /\ NoOtherPeer(c)
    /\ loc[c].pc = "ready"
    /\ loc[c].op.type = "subscribe"
    /\ loc[c].tref # 0
    /\ ~closed[c]

\* C6: replay window.  With no concurrent publish, a subscribe with
\* last_n = k on a topic that received n messages enqueues its Ack followed
\* by exactly the most recent min(k, n, R) messages, one Event each, every
\* Event carrying its own message, oldest first.
C6_ReplayWindow ==
    \A c \in Conns :
        SubscribeServedAlone(c) =>
            LET w == ReplayWindow(pubLog[loc[c].tref], loc[c].op.lastN)
                new == SubSeq(enq[c], loc[c].op.base + 1, Len(enq[c]))
            IN  /\ Len(new) = 1 + Len(w)
                /\ new[1].type = "ack"
                /\ new[1].rid = loc[c].op.rid
                /\ new[1].topic = loc[c].op.topic
                /\ \A i \in 1..Len(w) :
                      /\ new[i + 1].type = "event"
                      /\ ~new[i + 1].live
                      /\ new[i + 1].topic = loc[c].op.topic
                      /\ new[i + 1].msg = w[i]

\* A subscribe with last_n beyond the capacity, on a topic that received
\* more messages than the ring buffer holds, was served with a full window.
C6_Witness ==
    \E c \in Conns :
        /\ SubscribeServedAlone(c)
        /\ loc[c].op.lastN > ringBufferSize
        /\ Len(pubLog[loc[c].tref]) > ringBufferSize
        /\ Len(enq[c]) - loc[c].op.base = 1 + ringBufferSize
        /\ enq[c][Len(enq[c])].msg =
              pubLog[loc[c].tref][Len(pubLog[loc[c].tref])]

(* C7 *)

\* The frames of `written` that came out of MessageChan (a heartbeat never
\* went through it and has no position in the enqueue log).
QueuedWritten(s) == SelectSeq(written[s], LAMBDA f : f.seq # 0)

\* What is left of the enqueue log of s: written, in the write pump's hands,
\* or buffered.
Pipeline(s) ==
    QueuedWritten(s)
        \o (IF inflight[s] = NoFrame THEN <<>> ELSE <<inflight[s]>>)
        \o queue[s]

\* C7: per-subscriber FIFO.  The queued frames written to a transport are
\* frames of the enqueue log, in the order of the log and each at most
\* once; when nothing was dropped and neither the subscriber nor its write
\* pump has closed, what was written, followed by what is still to be
\* written, is the enqueue log.
C7_WriteOrderIsEnqueueOrder ==
    \A s \in Conns :
        LET w == QueuedWritten(s) IN
        /\ \A i \in 1..Len(w) :
              /\ w[i].seq \in 1..Len(enq[s])
              /\ enq[s][w[i].seq] = w[i]
        /\ \A i, j \in 1..Len(w) : i < j => w[i].seq < w[j].seq
        /\ (dropped[s] = 0 /\ ~closed[s] /\ wpc[s] \in {"select", "write"})
              => Pipeline(s) = enq[s]

\* Three frames were enqueued on an open subscriber and all were written.
C7_Witness ==
    \E s \in Conns :
        /\ dropped[s] = 0 /\ ~closed[s] /\ wpc[s] = "select"
        /\ Len(enq[s]) >= 3
        /\ QueuedWritten(s) = enq[s]

(* C8 *)

\* C8: once closed is set on a subscriber, no frame is appended to its
\* queue.
C8_NoEnqueueAfterClose ==
    [][\A s \in Conns : closed[s] => enq'[s] = enq[s]]_vars

(* C9 *)

\* C9: once closed is set on a subscriber, nothing more is written to its
\* transport, neither a buffered frame nor a heartbeat.
C9_NoWriteAfterClose ==
    [][\A s \in Conns : closed[s] => written'[s] = written[s]]_vars

(* C10 *)

\* C10: no enqueue, close or shutdown ends in a run-time panic.
C10_NothingThrows == panicked = {}

(* C11 *)

\* Some goroutine is inside SendMessage on subscriber s.
SendingTo(s) == {d \in Procs : loc[d].pc \in SendPcs /\ loc[d].to = s}

\* C11: bounded queues.  In every reachable state each subscriber's
\* delivery queue holds at most Q frames, whatever the publisher load and
\* the number of concurrent enqueuers.
C11_QueueBounded == \A s \in Conns : Len(queue[s]) <= capacity

\* A full queue that has already lost frames to overflow, with two
\* goroutines inside SendMessage on it.
C11_Witness ==
    \E s \in Conns :
        /\ Len(queue[s]) = capacity
        /\ dropped[s] > 0
        /\ Cardinality(SendingTo(s)) >= 2

(* C12 *)

\* C12: bounded history.  For every topic the ring buffer holds at most R
\* messages, never more than the topic has counted, and they are the most
\* recent ones published: an append to a full buffer overwrites the oldest
\* entry and leaves the size at R.
C12_HistoryBounded ==
    \A o \in TopicObjs :
        /\ rbSize[o] <= ringBufferSize
        /\ tCount[o] >= rbSize[o]
        /\ rbSize[o] = Min2(Len(pubLog[o]), ringBufferSize)
        /\ GetLast(o, ringBufferSize) = LastOf(pubLog[o], rbSize[o])

\* C12, amended: the ring buffer holds at most R messages, the most recent
\* ones published; the topic has counted every one of them whenever no
\* PublishMessage holds its lock, and every one but the last while a
\* PublishMessage is between the append and the count.
C12_HistoryBoundedCountedUnlocked ==
    \A o \in TopicObjs :
        /\ rbSize[o] <= ringBufferSize
        /\ ~TopicLocked(o) => tCount[o] >= rbSize[o]
        /\ TopicLocked(o) => tCount[o] + 1 >= rbSize[o]
        /\ rbSize[o] = Min2(Len(pubLog[o]), ringBufferSize)
        /\ GetLast(o, ringBufferSize) = LastOf(pubLog[o], rbSize[o])

\* A topic that received more messages than its ring buffer holds.
C12_Witness ==
    \E o \in TopicObjs :
        /\ Len(pubLog[o]) > ringBufferSize
        /\ rbSize[o] = ringBufferSize
        /\ tCount[o] > rbSize[o]

(* C13 *)

\* No goroutine is inside an engine operation: every connection is yet to
\* register, is between two requests, or has finished its teardown, and the
\* control surface is between two requests.
NoEngineOperation ==
    \A p \in Procs :
        loc[p].pc \in {"absent", "new", "refused", "register", "ready",
                       "unreg_lock", "done", "ctl_ready"}

\* Subscriber s is the open subscriber registered under its client id.
RegisteredOpen(s) ==
    /\ clientID[s] # 0
    /\ engClients[clientID[s]] = s
    /\ ~closed[s]

\* C13: bidirectional membership consistency.  Whenever no engine
\* operation is in progress, for every topic T in the registry and every
\* open registered subscriber S, S is in T.subscribers if and only if T's
\* name is in S's topic set, after any interleaving of create_topic,
\* delete_topic, subscribe, unsubscribe and unregister_client, a subscribe
\* racing a delete_topic followed by re-creation of the name included.
C13_MembershipConsistent ==
    NoEngineOperation =>
        \A n \in TopicNames : \A s \in Conns :
            (engTopics[n] # 0 /\ RegisteredOpen(s)) =>
                (s \in GetSubscribers(engTopics[n]) <=> n \in subTopics[s])

(* C14 *)

\* C14: members are registered.  Whenever no engine operation is in
\* progress, every subscriber in the subscriber set of a topic of the
\* registry is the subscriber registered in the client registry under its
\* client id, two connections presenting the same client id included.
C14_MembersAreRegistered ==
    NoEngineOperation =>
        \A n \in TopicNames :
            engTopics[n] # 0 =>
                \A s \in GetSubscribers(engTopics[n]) :
                    engClients[clientID[s]] = s

(* C15 *)

\* This step appends an Event to the enqueue log of subscriber s.
EnqueuesEvent(s) ==
    /\ Len(enq'[s]) = Len(enq[s]) + 1
    /\ enq'[s][Len(enq'[s])].type = "event"

\* Subscriber s is in the subscriber map of a topic named n, or was in it
\* when the publish that is now sending to s took its snapshot.
MemberOf(s, n) ==
    \/ \E o \in TopicObjs : tName[o] = n /\ tSubs[o][clientID[s]] = s
    \/ \E d \in Conns :
          /\ loc[d].pc \in SendPcs
          /\ loc[d].ret = "pub_loop"
          /\ loc[d].to = s
          /\ tName[loc[d].tref] = n
          /\ s \in loc[d].members

\* C15: topic isolation.  An Event carrying topic T is only ever enqueued
\* on a subscriber that is a member of T; a subscriber subscribed only to
\* another topic never receives an Event for a message published to T.
C15_TopicIsolation ==
    [][\A s \in Conns :
          EnqueuesEvent(s) => MemberOf(s, enq'[s][Len(enq'[s])].topic)]_vars

(* C16 *)

\* C16: unsubscribe stops delivery.  Once an unsubscribe from T has
\* completed with its Ack enqueued, no publish to T that starts afterwards
\* enqueues its Event on that connection's subscriber, for as long as the
\* connection has sent no further request.
C16_NoEventAfterUnsubscribe ==
    \A d \in Conns : \A s \in loc[d].op.unsub :
        UnsubscribeAcked(s, loc[d].op.topic) =>
            ~HasLiveEvent(s, loc[d].op.msg)

\* A publish that started after the unsubscribe of another, still open,
\* connection was acknowledged has stored its message and returned.
C16_Witness ==
    \E d \in Conns : \E s \in loc[d].op.unsub :
        /\ s # d
        /\ UnsubscribeAcked(s, loc[d].op.topic)
        /\ ~closed[s]
        /\ PublishReturned(d)
        /\ loc[d].op.msg \in {pubLog[loc[d].tref][i] :
                                  i \in 1..Len(pubLog[loc[d].tref])}

(* C17 *)

\* The topic_deleted notifications of topic n in the enqueue log of s.
DeletedInfos(s, n) ==
    {i \in 1..Len(enq[s]) :
        /\ enq[s][i].type = "info"
        /\ enq[s][i].info = "topic_deleted"
        /\ enq[s][i].topic = n}

\* Connection d has sent a publish to topic n and has TOPIC_NOT_FOUND for
\* it, or is about to look the topic up.
PublishRefused(d) ==
    /\ loc[d].tref = 0
    /\ loc[d].pc = "ready" =>
          \E i \in (loc[d].op.base + 1)..Len(enq[d]) :
              /\ enq[d][i].type = "error"
              /\ enq[d][i].code = "TOPIC_NOT_FOUND"
              /\ enq[d][i].rid = loc[d].op.rid

\* C17: delete_topic.  When DeleteTopic of an existing topic T has
\* returned and T has not been created again, T is out of the registry,
\* every subscriber that was a member of T has exactly one
\* Info{topic: T, msg: "topic_deleted"} in its enqueue log, has T out of
\* its topic set, is open and registered, and every publish to T read
\* after the return has TOPIC_NOT_FOUND for its answer.
C17_DeleteTopic ==
    \A n \in TopicNames :
        DeleteServed(n) =>
            /\ engTopics[n] = 0
            /\ \A s \in DeletedMembers(n) :
                  /\ Cardinality(DeletedInfos(s, n)) = 1
                  /\ n \notin subTopics[s]
                  /\ ~closed[s]
                  /\ engClients[clientID[s]] = s
            /\ \A d \in Conns :
                  (/\ loc[d].op.type = "publish"
                   /\ loc[d].op.topic = n
                   /\ loc[d].op.gone) => PublishRefused(d)

(* C18 *)

\* C18: teardown.  When the UnregisterClient call at the end of connection
\* c's HandleWebSocket has returned, the subscriber of c is closed, is not
\* in the client registry and is in the subscriber set of no topic of the
\* registry.
C18_TeardownComplete ==
    \A c \in Conns :
        loc[c].pc = "done" =>
            /\ closed[c]
            /\ engClients[clientID[c]] # c
            /\ \A n \in TopicNames :
                  engTopics[n] # 0 => c \notin GetSubscribers(engTopics[n])

(* C19 *)

TeardownPcs ==
    {"unreg_lock", "unreg_topics", "unreg_loop", "unreg_remove",
     "close_lock", "close_chan", "close_conn"}

\* This step is taken by connection x inside its UnregisterClient call.
TeardownStep(x) == loc[x].pc \in TeardownPcs /\ loc'[x] # loc[x]

\* Connection y has registered and its handler is still serving it.
Live(y) ==
    /\ clientID[y] # 0
    /\ loc[y].pc \notin ({"done", "panicked"} \cup TeardownPcs)

\* C19: a lost connection stays local.  No step of the teardown of a
\* connection X closes the subscriber of another live connection Y, takes
\* it out of the client registry, or changes its topic memberships, X and
\* Y presenting the same client id included.
C19_TeardownIsLocal ==
    [][\A x \in Conns : \A y \in Conns \ {x} :
          (TeardownStep(x) /\ Live(y)) =>
              /\ closed'[y] = closed[y]
              /\ chanClosed'[y] = chanClosed[y]
              /\ connOpen'[y] = connOpen[y]
              /\ engClients[clientID[y]] = y => engClients'[clientID[y]] = y
              /\ subTopics'[y] = subTopics[y]
              /\ \A o \in TopicObjs :
                    tSubs[o][clientID[y]] = y => tSubs'[o][clientID[y]] = y]_vars

(* C20 *)

\* Subscribers in the client registry.
Registered == {engClients[i] : i \in ClientIds} \ {0}

\* Shutdown has closed the shutdown channel before it takes the registry
\* lock or closes anything.
FlagBeforeClose == sdpc # "idle" => shuttingDown

\* Shutdown's loop over the client registry has ended, the registry lock
\* still held: every registered subscriber is closed.
ShutdownClosedAll ==
    (sdpc = "loop" /\ sdLeft = {}) => \A s \in Registered : closed[s]

\* A connection attempt that finds the engine shutting down is refused:
\* no subscriber is created for it and the client registry is untouched.
RefusedWhenShuttingDown ==
    \A c \in Conns :
        /\ (loc[c].pc = "new" /\ shuttingDown /\ loc'[c] # loc[c]) =>
              /\ loc'[c].pc = "refused"
              /\ engClients' = engClients
        /\ loc'[c].pc = "refused" =>
              /\ clientID'[c] = 0
              /\ c \notin {engClients'[i] : i \in ClientIds}
              /\ wpc'[c] = "off"
              /\ ~connOpen'[c]
              /\ loc'[c] = IdleLocals("refused")

\* C20: shutdown.  Shutdown sets the shutting-down flag and then, under
\* the registry lock, closes every subscriber in the client registry; a
\* connection attempt that observes the flag is refused without a
\* subscriber being created or registered.
C20_Shutdown ==
    [][FlagBeforeClose' /\ ShutdownClosedAll' /\ RefusedWhenShuttingDown]_vars

\* Shutdown has returned after closing a registered subscriber, and a
\* connection that arrived after the signal has been refused.
C20_Witness ==
    /\ sdpc = "done"
    /\ \E s \in Registered : closed[s] /\ chanClosed[s] /\ ~connOpen[s]
    /\ \E c \in Conns : loc[c].pc = "refused"

(* C30 *)

\* The Close calls on subscriber s that have won the closed flag and have
\* reached close(s.MessageChan) (stage "chan") or s.Conn.Close() (stage
\* "conn"): from UnregisterClient, from the write pump's deferred call,
\* from `go s.Close()` and from Shutdown.
Closing(s, stage) ==
    {<<"unregister", c>> : c \in {d \in Conns :
        loc[d].pc = "close_" \o stage /\ loc[d].sref = s}}
    \cup (IF wpc[s] = "close_" \o stage THEN {<<"writer", s>>} ELSE {})
    \cup (IF asyncStage[s] = stage THEN {<<"async", s>>} ELSE {})
    \cup (IF sdpc = "close_" \o stage /\ sdCur = s
          THEN {<<"shutdown", s>>} ELSE {})

\* C30: Close is idempotent.  Whatever the number of sequential or
\* concurrent Close calls on one subscriber, at most one of them is past
\* the closed flag, MessageChan is closed by that call only, and never
\* twice: a call that is about to close the channel finds it open, a call
\* that is about to close the transport has closed the channel, and the
\* channel is closed only on a subscriber whose flag is set.
C30_CloseOnce ==
    \A s \in Conns :
        /\ Cardinality(Closing(s, "chan") \cup Closing(s, "conn")) <= 1
        /\ Closing(s, "chan") # {} => (closed[s] /\ ~chanClosed[s])
        /\ Closing(s, "conn") # {} => (closed[s] /\ chanClosed[s])
        /\ chanClosed[s] => closed[s]

\* The write pump's deferred Close and UnregisterClient's Close have both
\* returned on a subscriber that is closed, channel and transport.
C30_Witness ==
    \E s \in Conns :
        /\ wpc[s] = "done"
        /\ loc[s].pc = "done"
        /\ clientID[s] # 0
        /\ \A d \in Conns \ {s} : clientID[d] # clientID[s]
        /\ closed[s] /\ chanClosed[s] /\ ~connOpen[s]

(* C21 *)

\* The only connection has been served an unsubscribe that directly
\* followed its served subscribe to the same topic, which exists throughout.
SubscribeUnsubscribeServed(c) ==
    /\ NoOtherPeer(c)
    /\ loc[c].op.paired
    /\ UnsubscribeAcked(c, loc[c].op.topic)
    /\ loc[c].op.pre.o # 0
    /\ engTopics[loc[c].op.topic] = loc[c].op.pre.o

\* The topic's subscriber map, its history and the topic set of c are
\* what they were when the subscribe was read.
MembershipRestored(c) ==
    LET pre == loc[c].op.pre IN
    /\ tSubs[pre.o] = pre.subs
    /\ GetLast(pre.o, ringBufferSize) = pre.hist
    /\ subTopics[c] = pre.topics

\* C21, as stated: subscribe then unsubscribe on an existing topic from a
\* single connection, nothing interleaved, leaves the topic's subscriber
\* set, its history and the subscriber's topic set as they were before the
\* subscribe.
C21_SubscribeUnsubscribeRestores ==
    \A c \in Conns : SubscribeUnsubscribeServed(c) => MembershipRestored(c)

\* C21, amended: the same for a connection that was not a member of the
\* topic when it subscribed.
C21_SubscribeUnsubscribeRestoresNonMember ==
    \A c \in Conns :
        (/\ SubscribeUnsubscribeServed(c)
         /\ loc[c].op.pre.subs[clientID[c]] = 0
         /\ loc[c].op.topic \notin loc[c].op.pre.topics)
            => MembershipRestored(c)

\* A connection that was not a member subscribed with replay to a topic
\* with history and unsubscribed.
C21_Witness ==
    \E c \in Conns :
        /\ SubscribeUnsubscribeServed(c)
        /\ loc[c].op.pre.subs[clientID[c]] = 0
        /\ loc[c].op.topic \notin loc[c].op.pre.topics
        /\ Len(loc[c].op.pre.hist) > 0
        /\ \E i \in 1..Len(enq[c]) : enq[c][i].type = "event"

(* C22 *)

\* The only connection has been served a request of the given type on a
\* topic that exists throughout.
MembershipRequestServed(c, type) ==
    /\ NoOtherPeer(c)
    /\ loc[c].pc = "ready"
    /\ loc[c].op.type = type
    /\ loc[c].op.pre.o # 0
    /\ engTopics[loc[c].op.topic] = loc[c].op.pre.o

\* The reply to the request of c is an Ack, and no Error.
RepliedOk(c) ==
    /\ \E i \in (loc[c].op.base + 1)..Len(enq[c]) :
          enq[c][i].type = "ack" /\ enq[c][i].rid = loc[c].op.rid
    /\ \A i \in (loc[c].op.base + 1)..Len(enq[c]) :
          enq[c][i].type # "error"

WasMember(c) == loc[c].op.pre.subs[clientID[c]] = c

LiveEventsOf(c, m) ==
    {i \in 1..Len(enq[c]) :
        enq[c][i].type = "event" /\ enq[c][i].live /\ enq[c][i].msg = m}

\* C22: on an existing topic, subscribing a member returns ok and leaves the
\* subscriber set (and so the subscriber count) unchanged, a publish that
\* follows (with a message id that is a UUID) enqueues exactly one Event on
\* that client, and unsubscribing a
\* non-member returns ok and leaves the engine state unchanged.
C22_MembershipIdempotent ==
    \A c \in Conns :
        /\ (MembershipRequestServed(c, "subscribe") /\ WasMember(c))
              => /\ RepliedOk(c)
                 /\ tSubs[loc[c].op.pre.o] = loc[c].op.pre.subs
                 /\ subTopics[c] = loc[c].op.pre.topics
        /\ (/\ MembershipRequestServed(c, "publish")
            /\ loc[c].op.mid = "uuid"
            /\ WasMember(c))
              => /\ RepliedOk(c)
                 /\ Cardinality(LiveEventsOf(c, loc[c].op.msg)) = 1
        /\ (/\ MembershipRequestServed(c, "unsubscribe")
            /\ ~loc[c].op.paired
            /\ ~WasMember(c))
              => /\ RepliedOk(c)
                 /\ MembershipRestored(c)

\* A member has subscribed again and then published, with one Event for it.
C22_Witness ==
    \E c \in Conns :
        /\ MembershipRequestServed(c, "publish")
        /\ loc[c].op.mid = "uuid"
        /\ WasMember(c)
        /\ Cardinality(LiveEventsOf(c, loc[c].op.msg)) = 1

\* A connection that is not a member has been served an unsubscribe.
C22_WitnessUnsubscribe ==
    \E c \in Conns :
        /\ MembershipRequestServed(c, "unsubscribe")
        /\ ~loc[c].op.paired
        /\ ~WasMember(c)
        /\ RepliedOk(c)

(* C24 *)

\* The request of c is a publish whose message id is missing, empty or not
\* a UUID.
BadPublish(c) ==
    loc[c].op.type = "publish" /\ loc[c].op.mid \in {"none", "empty", "text"}

BadRequestTo(c) ==
    \E i \in (loc[c].op.base + 1)..Len(enq[c]) :
        /\ enq[c][i].type = "error"
        /\ enq[c][i].code = "BAD_REQUEST"
        /\ enq[c][i].rid = loc[c].op.rid

\* C24: a publish whose message id is missing or not a UUID is answered with
\* Error BAD_REQUEST and nothing else happens: its message is in no topic's
\* history, the topic's message count is what it was, and no subscriber is
\* enqueued an Event for it.
C24_InvalidMessageIdRefused ==
    \A c \in Conns :
        BadPublish(c) =>
            /\ loc[c].pc \in SendPcs \cup {"ready"}
            /\ loc[c].pc \in SendPcs
                   => loc[c].frame = ErrorMsg(loc[c].op.rid, "BAD_REQUEST")
            /\ loc[c].pc = "ready" => BadRequestTo(c)
            /\ \A i \in (loc[c].op.base + 1)..Len(enq[c]) :
                   enq[c][i].type # "ack"
            /\ \A o \in TopicObjs :
                   /\ \A i \in 1..Len(pubLog[o]) :
                          pubLog[o][i] # loc[c].op.msg
                   /\ \A i \in 1..Len(GetLast(o, ringBufferSize)) :
                          GetLast(o, ringBufferSize)[i] # loc[c].op.msg
            /\ \A s \in Conns :
                   \A i \in 1..Len(enq[s]) :
                       enq[s][i].type = "event"
                           => enq[s][i].msg # loc[c].op.msg
            /\ loc[c].op.pre.o # 0
                   => /\ tCount[loc[c].op.pre.o] = loc[c].op.pre.count
                      /\ GetLast(loc[c].op.pre.o, ringBufferSize)
                             = loc[c].op.pre.hist

\* A subscriber of a topic with one message has published a message with a
\* text that is no UUID as its id, and has been sent the error.
C24_Witness ==
    \E c \in Conns :
        /\ BadPublish(c)
        /\ loc[c].op.mid = "text"
        /\ loc[c].pc = "ready"
        /\ BadRequestTo(c)
        /\ loc[c].op.pre.o # 0
        /\ loc[c].op.pre.count = 1
        /\ loc[c].op.pre.subs[clientID[c]] = c

(* C25 *)

\* The handler of c is sending the Error frame of a request it refused with
\* BAD_REQUEST or TOPIC_NOT_FOUND, to a subscriber that is open.
Refusing(c) ==
    /\ loc[c].pc \in SendPcs
    /\ loc[c].to = c
    /\ loc[c].frame.type = "error"
    /\ loc[c].frame.code \in {"BAD_REQUEST", "TOPIC_NOT_FOUND"}
    /\ ~closed[c]

ErrorFrames(log, base, rid) ==
    {i \in (base + 1)..Len(log) : log[i].type = "error" /\ log[i].rid = rid}

\* A step of the handler of c that leaves the subscriber open and
\* registered and every membership as it is, stays in the request or
\* returns to the read loop, and returns with one Error frame enqueued for
\* the request.
KeepsConnection(c) ==
    /\ closed' = closed /\ chanClosed' = chanClosed
    /\ connOpen' = connOpen /\ panicked' = panicked
    /\ asyncPending' = asyncPending
    /\ engClients' = engClients
    /\ tSubs' = tSubs /\ subTopics' = subTopics
    /\ loc'[c].pc \in SendPcs \cup {"ready"}
    /\ loc'[c].pc = "ready"
          => /\ Cardinality(ErrorFrames(enq'[c], loc[c].op.base,
                                        loc[c].op.rid)) = 1
             /\ loc'[c].op = loc[c].op

\* C25, as stated: a request refused with BAD_REQUEST or TOPIC_NOT_FOUND
\* produces exactly one Error frame, leaves the subscriber open, registered
\* and with unchanged memberships, and the handler returns to the read loop.
C25_RefusalKeepsConnection ==
    [][\A c \in Conns :
          (Refusing(c) /\ loc'[c] # loc[c]) => KeepsConnection(c)]_vars

\* C25, amended: the same, unless the Error frame finds the subscriber's
\* queue full on both attempts of its enqueue.
C25_RefusalKeepsConnectionUnlessOverflow ==
    [][\A c \in Conns :
          (Refusing(c) /\ loc[c].pc # "sm_err" /\ loc'[c] # loc[c])
              => KeepsConnection(c)]_vars

\* A subscriber of a topic has had a frame of an unknown type and a
\* publish to a topic that does not exist refused, and has then been
\* served a ping.
C25_Witness ==
    \E c \in Conns :
        /\ loc[c].pc = "ready"
        /\ loc[c].op.type = "ping"
        /\ \E i, j, k \in 1..Len(enq[c]) :
              /\ i < j /\ j < k
              /\ enq[c][i].type = "error" /\ enq[c][i].code = "BAD_REQUEST"
              /\ enq[c][j].type = "error"
              /\ enq[c][j].code = "TOPIC_NOT_FOUND"
              /\ enq[c][k].type = "pong"
        /\ ~closed[c] /\ engClients[clientID[c]] = c
        /\ \E o \in TopicObjs : tSubs[o][clientID[c]] = c

(* C23 *)

\* The registry, the topics and the memberships.
EngineState ==
    <<engTopics, engClients, tName, tSubs, tCount, rbMessages, rbIndex,
      rbSize, subTopics>>

\* The control surface serves the request at the head of the script of
\* its client r, of the given type.
Serves(r, type) ==
    /\ loc[r].pc = "ctl_ready"
    /\ script[r] # <<>>
    /\ Head(script[r]).type = type
    /\ script'[r] = Tail(script[r])
    /\ Admitted(Head(script[r]))
    /\ ShouldBindJSON(Head(script[r])) \/ type # "create"

\* The response just given has the status and the error.
Responds(status, code) ==
    /\ Len(replies') = Len(replies) + 1
    /\ replies'[Len(replies')].status = status
    /\ replies'[Len(replies')].code = code

\* The engine returns to the handler of the request of client r, which is
\* to write the response with the status and the error.
Returns(r, status, code) ==
    /\ loc'[r].pc = "ctl_reply"
    /\ loc'[r].resp.status = status
    /\ loc'[r].resp.code = code

\* The handler of the request of client r writes the response of an
\* engine operation that failed.
WritesFailure(r) ==
    /\ loc[r].pc = "ctl_reply"
    /\ loc[r].resp.status \in {404, 409}
    /\ loc'[r] # loc[r]

\* C23: an engine operation that fails returns its error and changes
\* nothing in the engine: CreateTopic of a registered name returns
\* ErrTopicExists, DeleteTopic, Subscribe, Unsubscribe and Publish of a name
\* that is not registered return ErrTopicNotFound, Subscribe of a client id
\* that is not registered returns ErrClientNotFound, and from the failure
\* to the end of the request the registry, the topics (subscribers,
\* history, message count) and the topic sets stay as they are.
C23_FailedOperationChangesNothing ==
    [][/\ \A r \in Rests :
             /\ (Serves(r, "create") /\ engTopics[Head(script[r]).topic] # 0)
                  => (Returns(r, 409, "ErrTopicExists")
                      /\ EngineState' = EngineState)
             /\ (Serves(r, "delete") /\ engTopics[Head(script[r]).topic] = 0)
                  => (Returns(r, 404, "ErrTopicNotFound")
                      /\ EngineState' = EngineState)
             /\ WritesFailure(r)
                  => (Responds(loc[r].resp.status, loc[r].resp.code)
                      /\ EngineState' = EngineState)
       /\ \A c \in Conns :
             /\ (/\ loc'[c] # loc[c]
                 /\ loc[c].pc \in {"sub_topic", "unsub_topic", "pub_topic"}
                 /\ engTopics[loc[c].op.topic] = 0)
                    => (/\ loc'[c].err = "ErrTopicNotFound"
                        /\ loc'[c].pc \in SendPcs
                        /\ EngineState' = EngineState)
             /\ (/\ loc'[c] # loc[c]
                 /\ loc[c].pc = "sub_client"
                 /\ engClients[clientID[c]] = 0)
                    => (/\ loc'[c].err = "ErrClientNotFound"
                        /\ loc'[c].pc \in SendPcs
                        /\ EngineState' = EngineState)
             /\ (/\ loc'[c] # loc[c]
                 /\ loc[c].pc \in SendPcs
                 /\ loc[c].err # "")
                    => EngineState' = EngineState]_vars

\* CreateTopic of a registered name has been refused, and the topic has
\* its subscriber and its message.
C23_Witness ==
    /\ Len(replies) = 2
    /\ replies[2].call = "create"
    /\ replies[2].code = "ErrTopicExists"
    /\ engTopics["orders"] # 0
    /\ tCount[engTopics["orders"]] = 1
    /\ tSubs[engTopics["orders"]][1] = 1

\* DeleteTopic of a name that is not registered has been refused.
C23_WitnessDelete ==
    \E i \in 1..Len(replies) :
        replies[i].call = "delete" /\ replies[i].code = "ErrTopicNotFound"

\* A Subscribe has failed for a client id that is not registered.
C23_WitnessClient ==
    \E c \in Conns :
        /\ loc[c].pc = "ready"
        /\ loc[c].op.type = "subscribe"
        /\ loc[c].err = "ErrClientNotFound"
        /\ \A o \in TopicObjs : tSubs[o][clientID[c]] # c

\* An Unsubscribe has failed for a topic that is not registered.
C23_WitnessTopic ==
    \E c \in Conns :
        /\ loc[c].pc = "ready"
        /\ loc[c].op.type = "unsubscribe"
        /\ loc[c].err = "ErrTopicNotFound"

(* C29 *)

\* A Publish call on topic object o has stored its message and has not
\* returned.
PublishInProgress(o) ==
    \E c \in Conns :
        /\ loc[c].op.type = "publish"
        /\ loc[c].tref = o
        /\ \/ loc[c].pc \in {"pub_count", "pub_snap", "pub_next",
                             "pub_ret"}
           \/ loc[c].pc \in SendPcs /\ loc[c].ret = "pub_loop"

\* The GetStats serving client r reads the message count of topic n.
StatsReads(r, n) ==
    /\ loc[r].pc = "stats_next"
    /\ n \in loc[r].left
    /\ loc'[r].pc = "stats_subs"
    /\ loc'[r].op.topic = n

\* C29: the messages figure stats() reports for a topic, read while no
\* publish to the topic is in progress, is the number of Publish calls to
\* that topic that returned success since the topic was created.
C29_StatsCountSuccessfulPublishes ==
    [][\A r \in Rests : \A n \in TopicNames :
          (StatsReads(r, n) /\ ~PublishInProgress(engTopics[n]))
              => loc'[r].count = pubOk[engTopics[n]]]_vars

\* The same for the topics no publisher of which has ended in a panic.
C29_StatsCountWithoutPanic ==
    [][\A r \in Rests : \A n \in TopicNames :
          (/\ StatsReads(r, n)
           /\ ~PublishInProgress(engTopics[n])
           /\ panicked = {})
              => loc'[r].count = pubOk[engTopics[n]]]_vars

(* C28 *)

\* The control surface answers the request at the head of the script of
\* its client r, or starts on it.
TakesRequest(r) ==
    /\ loc[r].pc = "ctl_ready"
    /\ script[r] # <<>>
    /\ script'[r] = Tail(script[r])

\* The request is answered 401 with the code, and no engine operation is
\* invoked.
Unauthorized(code) ==
    /\ Responds(401, code)
    /\ EngineState' = EngineState
    /\ loc' = loc

\* The request is not answered 401.
PassesMiddleware ==
    \/ Len(replies') = Len(replies)
    \/ /\ Len(replies') = Len(replies) + 1
       /\ replies'[Len(replies')].status # 401

\* C28: with validation enabled a create, delete, list or stats request
\* without X-API-Key is answered 401 MISSING_API_KEY and one with a key that
\* is not among the configured keys (trimmed, the empty ones left out) is
\* answered 401 INVALID_API_KEY, the engine not being invoked; one with a
\* configured key passes; health is served without a key; with validation
\* disabled every request passes.
C28_ControlSurfaceCredentials ==
    [][\A r \in Rests : TakesRequest(r) =>
          LET call == Head(script[r]) IN
          /\ \A k \in validator.validKeys :
                k # <<>> /\ ~IsSpace(Head(k)) /\ ~IsSpace(k[Len(k)])
          /\ (IsEnabled /\ Protected(call) /\ call.key = <<>>)
                => Unauthorized("MISSING_API_KEY")
          /\ (/\ IsEnabled /\ Protected(call) /\ call.key # <<>>
              /\ call.key \notin validator.validKeys)
                => Unauthorized("INVALID_API_KEY")
          /\ (IsEnabled /\ Protected(call)
              /\ call.key \in validator.validKeys)
                => PassesMiddleware
          /\ call.type = "health" => Returns(r, 200, "")
          /\ ~IsEnabled => PassesMiddleware]_vars

\* With validation enabled and the key "k" configured (with blanks around
\* it), a create with the key has been served, a create without a key, a
\* delete with another key and a stats with the key preceded by a blank
\* have been answered 401, and health has been served without a key.
C28_Witness ==
    /\ IsEnabled
    /\ validator.validKeys = {<<"k">>}
    /\ Len(replies) >= 6
    /\ replies[1].call = "create" /\ replies[1].status = 201
    /\ replies[2].call = "create" /\ replies[2].status = 401
    /\ replies[2].code = "MISSING_API_KEY"
    /\ replies[3].call = "delete" /\ replies[3].code = "INVALID_API_KEY"
    /\ replies[4].call = "stats" /\ replies[4].code = "INVALID_API_KEY"
    /\ replies[5].call = "list" /\ replies[5].code = "MISSING_API_KEY"
    /\ replies[6].call = "health" /\ replies[6].status = 200
    /\ engTopics["orders"] # 0 /\ engTopics["alerts"] = 0

(* C26 *)

\* The first frame of connection c was an auth frame with a key the
\* validator accepts.
Authenticated(c) ==
    /\ loc[AuthGo(c)].op.type = "auth"
    /\ loc[AuthGo(c)].op.key \in validator.validKeys

\* The handler of c is in the main loop of readPump, reading or serving a
\* frame.
InMainLoop(c) ==
    \/ loc[c].pc = "ready"
    \/ loc[c].pc \in {"sub_topic", "sub_client", "sub_add", "sub_addtopic",
                       "sub_hist", "unsub_topic", "unsub_remove",
                       "unsub_client", "unsub_rmtopic", "pub_topic",
                       "pub_store", "pub_count", "pub_snap", "pub_next",
                       "pub_ret"}
    \/ loc[c].pc \in SendPcs /\ loc[c].ret # "auth_end"

\* C26: with credential validation enabled, a connection whose first frame
\* was not an auth frame with a key the validator accepts has none of its
\* frames dispatched: its handler is never in the main loop, it is sent no
\* Ack with status ok and no Pong, it is a member of no topic, and (being
\* the only connection) no message is added to any topic.
C26_AuthGate ==
    IsEnabled =>
        \A c \in Conns :
            ~Authenticated(c) =>
                /\ ~InMainLoop(c)
                /\ \A i \in 1..Len(enq[c]) :
                       /\ enq[c][i].type # "pong"
                       /\ enq[c][i].type = "ack" => enq[c][i].status # "ok"
                /\ subTopics[c] = {}
                /\ \A o \in TopicObjs : \A i \in ClientIds : tSubs[o][i] # c
                /\ NoOtherPeer(c)
                       => \A o \in TopicObjs :
                             pubLog[o] = <<>> /\ tCount[o] = 0

\* With validation enabled, a connection that sent a subscribe as its
\* first frame has been refused and has ended, the topic being there; the
\* publish it sent next was never read.
C26_Witness ==
    \E c \in Conns :
        /\ IsEnabled
        /\ loc[AuthGo(c)].op.type = "subscribe"
        /\ loc[c].pc = "done"
        /\ engTopics["orders"] # 0
        /\ Len(script[c]) = 1
        /\ \E i \in 1..Len(enq[c]) :
              enq[c][i].type = "error" /\ enq[c][i].code = "UNAUTHORIZED"
                  /\ enq[c][i].rid # NoRid

(* C27 *)

\* The goroutine that reads the first frame of c has read one and has sent
\* its answer.
FirstFrameAnswered(c) ==
    /\ loc[AuthGo(c)].pc \in {"auth_true", "auth_false", "auth_done"}
    /\ loc[AuthGo(c)].op.type # ""

\* A frame of the type, with the request id and the code or the status,
\* is among those enqueued on c from position base on.
Enqueued(c, base, type, rid, code, status) ==
    \E i \in (base + 1)..Len(enq[c]) :
        /\ enq[c][i].type = type /\ enq[c][i].rid = rid
        /\ enq[c][i].code = code /\ enq[c][i].status = status

\* What the auth gate has done for c so far is what it is to do: the
\* answer to the first frame is enqueued on the subscriber (if that is
\* still open), a connection that is not authenticated is not in the main
\* loop, the timeout is reported, and a handler that has ended has
\* unregistered and closed the subscriber.
GateOutcome(c) ==
    LET g == loc[AuthGo(c)] IN
    /\ (FirstFrameAnswered(c) /\ g.op.type # "auth" /\ ~closed[c])
          => Enqueued(c, g.op.base, "error", g.op.rid, "UNAUTHORIZED", "")
    /\ (/\ FirstFrameAnswered(c) /\ g.op.type = "auth"
        /\ g.op.key \notin validator.validKeys /\ ~closed[c])
          => Enqueued(c, g.op.base, "error", g.op.rid, "INVALID_API_KEY", "")
    /\ (FirstFrameAnswered(c) /\ Authenticated(c) /\ ~closed[c])
          => Enqueued(c, g.op.base, "ack", g.op.rid, "", "authenticated")
    /\ ~Authenticated(c) => ~InMainLoop(c)
    /\ (/\ loc[c].pc = "auth_end" /\ loc[c].op.type = "timeout"
        /\ ~closed[c])
          => Enqueued(c, loc[c].op.base, "error", NoRid, "UNAUTHORIZED", "")
    /\ loc[c].pc = "done"
          => closed[c] /\ ~connOpen[c] /\ engClients[clientID[c]] # c

\* C27: with validation enabled, a first frame that is not an auth frame
\* is answered Error UNAUTHORIZED and the connection ends, an auth frame
\* with a key that is not configured is answered Error INVALID_API_KEY and
\* the connection ends, an auth frame with a configured key is answered
\* Ack "authenticated" and the main loop starts, the timer firing with no
\* frame read is answered Error UNAUTHORIZED and the connection ends, and
\* a connection that ends is unregistered and closed.
C27_AuthGateOutcomes ==
    [][IsEnabled =>
          \A c \in Conns :
              /\ GateOutcome(c)'
              /\ (/\ Authenticated(c)
                  /\ loc[c].pc = "auth_select"
                  /\ loc'[c] # loc[c])
                     => loc'[c].pc = "ready"]_vars

\* The same without the start of the main loop.
C27_AuthGateAnswers ==
    [][IsEnabled => \A c \in Conns : GateOutcome(c)']_vars

(* C31 *)

\* The positions of the SLOW_CONSUMER Error frames among the frames enqueued
\* on s.
SlowConsumerAt(s) ==
    {i \in 1..Len(enq[s]) :
        enq[s][i].type = "error" /\ enq[s][i].code = "SLOW_CONSUMER"}

\* C31: on every subscriber at most one SLOW_CONSUMER Error frame is
\* enqueued, and no frame is enqueued after it.
C31_SlowConsumerSingleTerminal ==
    \A s \in Conns :
        /\ Cardinality(SlowConsumerAt(s)) <= 1
        /\ \A i \in SlowConsumerAt(s) : i = Len(enq[s])

\* On every subscriber at most one SLOW_CONSUMER Error frame is enqueued.
C31_SlowConsumerSingle ==
    \A s \in Conns : Cardinality(SlowConsumerAt(s)) <= 1

(* C32 *)

\* The runs in which the write pumps are followed to their end: transports
\* that fail, heartbeats, queues that overflow, peers that go away or are
\* turned away, topics that are deleted, and the shutdown of the service.
WriteLoopScenarios ==
    { Settled(Scenario(<<<<Subscribe("orders", 1), Publish("orders"),
                           Ping>>>>, MaxFaults, MaxTicks)),
      Scenario(<<<<Publish("orders"), Subscribe("orders", 1),
                   Unsubscribe("orders"), Unsubscribe("orders")>>>>, 0, 0),
      Settled(Scenario(<<<<Subscribe("orders", 0), UnknownFrame>>,
                         <<Publish("orders"), Publish("orders")>>>>, 0, 0)),
      ScenarioWith(<<<<Subscribe("orders", 0), Publish("orders")>>>>, <<1>>,
                   <<CreateCall("orders"), DeleteCall("orders"),
                     StatsCall, ListCall, HealthCall>>, 0, 0),
      Alongside(ScenarioWith(<<<<Subscribe("orders", 0)>>>>, <<1>>,
                             <<CreateCall("orders"), StatsCall>>, 0, 0),
                <<ListCall, DeleteCall("orders"), CreateCall("")>>),
      Settled(Secured(ScenarioWith(<<<<AuthFrame(<<"k">>), Ping>>>>, <<1>>,
                                   <<WithKey(CreateCall("orders"), <<"k">>),
                                     ListCall>>, MaxFaults, 0),
                      {<<"k">>})) }

\* The scheduler runs every goroutine that can take a step, and a write to
\* the transport returns: the write pump of each subscriber, the handler of
\* each connection, each `go s.Close()`, the control surface and the
\* supervisor are not left waiting for ever while they can go on.
FairSpec ==
    /\ InitOf(WriteLoopScenarios)
    /\ [][Next]_vars
    /\ \A s \in Conns : WF_vars(~ProcessDown /\ WritePump(s))
    /\ \A c \in Conns : WF_vars(~ProcessDown /\ Handler(c))
    /\ \A s \in Conns : WF_vars(~ProcessDown /\ AsyncClose(s))
    /\ WF_vars(~ProcessDown /\ Shutdown)

\* The write loop of s is running: it waits in its select or writes.
InWriteLoop(s) == wpc[s] \in {"select", "write"}

\* The step is one in which a write of s to the transport (of a frame or
\* of a heartbeat) fails.
WriteFails(s) ==
    /\ written'[s] = written[s]
    /\ \/ wpc[s] = "write" /\ wpc'[s] # "write"
       \/ wpc[s] = "select" /\ ticksLeft' < ticksLeft /\ wpc'[s] # "select"

\* C32: the write loop stops when a transport write (of a frame or of a
\* heartbeat) fails or when the queue is closed, and for no other reason;
\* when it has stopped, Close runs, and the write pump ends with the
\* subscriber closed; and once the subscriber is closed its write pump
\* eventually ends, with the process at the latest.
C32_WriteLoopLifecycle ==
    /\ [][\A s \in Conns :
            /\ (InWriteLoop(s) /\ ~InWriteLoop(s)')
                  => /\ wpc'[s] = "close_lock"
                     /\ WriteFails(s) \/ (chanClosed[s] /\ queue[s] = <<>>)
            /\ (InWriteLoop(s) /\ WriteFails(s)) => wpc'[s] = "close_lock"
            /\ (wpc[s] = "select" /\ chanClosed[s] /\ queue[s] = <<>>
                /\ wpc'[s] # wpc[s]) => wpc'[s] = "close_lock"
            /\ wpc'[s] = "done" => closed'[s]]_vars
    /\ \A s \in Conns : closed[s] ~> (wpc[s] = "done" \/ ProcessDown)

\* The same, without the eventual end of the write pump, for every run of
\* the service.
C32_WriteLoopStops ==
    [][\A s \in Conns :
          /\ (InWriteLoop(s) /\ ~InWriteLoop(s)')
                => /\ wpc'[s] = "close_lock"
                   /\ WriteFails(s) \/ (chanClosed[s] /\ queue[s] = <<>>)
          /\ (InWriteLoop(s) /\ WriteFails(s)) => wpc'[s] = "close_lock"
          /\ wpc'[s] = "done" => closed'[s]]_vars

\* The write pump of a subscriber has ended after a write failed.
C32_Witness ==
    \E s \in Conns :
        /\ wpc[s] = "done" /\ closed[s]
        /\ faultsLeft < MaxFaults

(* C33 *)

\* The control surface, by its requests.
ControlSurface(r) ==
    \/ AuthMiddlewareAbort(r)
    \/ CreateTopicBadRequest(r)
    \/ CreateTopic(r)
    \/ DeleteTopic(r)
    \/ ListTopics(r)
    \/ GetStats(r)
    \/ GetHealth(r)
    \/ Reply(r)

\* The scheduler runs every goroutine that can take a step, but for the
\* write pumps: a write pump may stand still for ever, at any moment (its
\* write to the transport does not return).
StalledSpec ==
    /\ InitOf(WriteLoopScenarios)
    /\ [][Next]_vars
    /\ \A c \in Conns : WF_vars(~ProcessDown /\ Handler(c))
    /\ \A s \in Conns : WF_vars(~ProcessDown /\ AsyncClose(s))
    /\ \A r \in Rests : WF_vars(~ProcessDown /\ ControlSurface(r))
    /\ WF_vars(~ProcessDown /\ Shutdown)

\* Goroutine p is inside an operation of the engine or inside SendMessage:
\* it is not waiting for a frame of its peer, for a request of the
\* operator, for the auth goroutine or the auth timer, and has not ended.
InOperation(p) ==
    loc[p].pc \notin {"absent", "new", "refused", "ready", "done",
                      "panicked", "ctl_ready", "auth_select", "auth_read",
                      "auth_true", "auth_false", "auth_end", "auth_done"}

\* The supervisor is inside Shutdown.
InShutdown == sdpc \in {"lock", "loop", "close_chan", "close_conn"}

\* No operation is in progress and every request of the operator has been
\* served, or the process has ended.
AllOperationsCompleted ==
    \/ ProcessDown
    \/ /\ \A p \in Procs : ~InOperation(p)
       /\ ~InShutdown
       /\ \A r \in Rests : script[r] = <<>>

\* The lock of some topic is held by a PublishMessage.
SomeTopicLocked == \E o \in TopicObjs : TopicLocked(o)

\* C33: a goroutine inside SendMessage can always take its next step,
\* whatever the state of the queue; a handler inside an operation can take
\* its next step unless the registry lock is held by Shutdown or by a
\* ListTopics or GetStats, or the lock of a topic by a PublishMessage,
\* which can then take theirs; a request of the control surface inside an
\* operation can take its next step unless the lock of a topic is held;
\* and, the write pumps standing still from any moment on, every operation
\* that was begun runs to its end and every request of the operator is
\* served.
C33_NoWaitNoDeadlock ==
    /\ [](\A c \in Conns :
            /\ (loc[c].pc \in SendPcs \/ loc[AuthGo(c)].pc \in SendPcs)
                  => ENABLED (SendMessage(c) \/ SendMessage(AuthGo(c)))
            /\ InOperation(c)
                  => \/ ENABLED Handler(c)
                     \/ emuHeld \/ RegistryReadLocked \/ SomeTopicLocked
            /\ loc[c].pc = "pub_count" => ENABLED PublishCount(c))
    /\ [](emuHeld => ENABLED Shutdown)
    /\ [](\A r \in Rests :
            /\ loc[r].pc \in {"list_next", "stats_next", "stats_subs"}
                  => ENABLED (ListTopics(r) \/ GetStats(r)) \/ SomeTopicLocked
            /\ InOperation(r) => ENABLED ControlSurface(r) \/ SomeTopicLocked)
    /\ <>[]AllOperationsCompleted

\* A publish has returned with the queue of its subscriber full, frames
\* dropped from it, and nothing ever taken from it by the write pump.
C33_Witness ==
    \E c \in Conns :
        /\ loc[c].pc = "ready" /\ loc[c].op.type = "publish"
        /\ \E s \in Conns :
              /\ Len(queue[s]) = capacity
              /\ dropped[s] > 0
              /\ Len(enq[s]) = capacity + dropped[s]
              /\ written[s] = <<>>

(* C34 *)

\* One peer subscribes, asking for as many messages as the history holds,
\* while the other publishes one message more than that; and one peer
\* subscribes while a second publishes one message and a third publishes
\* two, each having had the pong of a ping first.  No peer reads from its
\* socket, and the queues hold every frame the run sends.
BurstScenarios ==
    { QueueOf(Unread(Scenario(<<<<Subscribe("orders", ringBufferSize)>>,
                                Pubs(ringBufferSize + 1)>>, 0, 0), Conns),
              (2 * ringBufferSize) + 2),
      Staged(QueueOf(Settled(Unread(
          Scenario(<<<<Ping, Subscribe("orders", ringBufferSize)>>,
                     <<Ping, Publish("orders")>>,
                     <<Ping, Publish("orders"), Publish("orders")>>>>,
                   0, 0), Conns)),
          (2 * ringBufferSize) + 2)) }

\* The runs of the service under a burst of publishes, with the runs in
\* which the write pumps are followed to their end.
BurstSpec == InitOf(WriteLoopScenarios \cup BurstScenarios) /\ [][Next]_vars

\* The handler of s has served a subscribe with last_n at least the
\* capacity of the history: Subscribe returned nil, the Ack and the replay
\* are enqueued, and the topic is still the one registered under its name.
SubscribeCompleted(s) ==
    /\ loc[s].pc = "ready"
    /\ loc[s].op.type = "subscribe"
    /\ loc[s].op.lastN >= ringBufferSize
    /\ loc[s].tref # 0
    /\ loc[s].op.topic \in TopicNames
    /\ engTopics[loc[s].op.topic] = loc[s].tref
    /\ RepliedOk(s)

\* Subscriber s is not closed and not about to be, and nothing was dropped
\* from its queue.
NeverOverflowed(s) ==
    /\ ~closed[s]
    /\ asyncPending[s] = 0
    /\ asyncStage[s] = "none"
    /\ dropped[s] = 0

\* Every publish that was begun has returned nil: no other goroutine is
\* inside an operation and none has ended in a panic.
PublishesReturned(s) ==
    /\ \A p \in Procs \ {s} : ~InOperation(p)
    /\ panicked = {}

\* The messages the topic of the subscribe of s has stored.
StoredMessages(s) ==
    {pubLog[loc[s].tref][i] : i \in 1..Len(pubLog[loc[s].tref])}

\* The messages stored by the publishes that raced with the subscribe of
\* s: those in progress when the subscribe frame was read and those whose
\* frame was read after it.
RacingMessages(s) ==
    StoredMessages(s)
        \cap (loc[s].op.racing \cup {m \in 1..nextMsg : m >= loc[s].op.since})

\* The messages of the replay returned to the subscribe of s.
ReplayOf(s) == {loc[s].history[i] : i \in 1..Len(loc[s].history)}

\* At least R messages were stored in the topic after message m and before
\* the subscribe of s read the history: the ring buffer had overwritten m.
EvictedBeforeRead(s, m) ==
    \E i \in 1..Len(pubLog[loc[s].tref]) :
        /\ pubLog[loc[s].tref][i] = m
        /\ i + ringBufferSize <= loc[s].op.read

\* C34: when a subscribe of s with last_n at least the capacity of the
\* history has completed, s being open and its queue never having
\* overflowed, every message of a publish to the topic that raced with it
\* and has returned is in the replay returned to the subscribe or is
\* enqueued live on s.
C34_NoMissedMessage ==
    \A s \in Conns :
        (SubscribeCompleted(s) /\ NeverOverflowed(s) /\ PublishesReturned(s))
           => \A m \in RacingMessages(s) :
                 m \in ReplayOf(s) \/ HasLiveEvent(s, m)

\* C34, amended: under the same conditions every message a publish has
\* stored in the topic, racing or not, is in the replay returned to the
\* subscribe or is enqueued live on s, unless R or more messages were
\* stored in the topic after it and before the subscribe read the history.
C34_NoMissedMessageUnlessEvicted ==
    \A s \in Conns :
        (SubscribeCompleted(s) /\ NeverOverflowed(s) /\ PublishesReturned(s))
           => \A m \in StoredMessages(s) :
                 \/ m \in ReplayOf(s)
                 \/ HasLiveEvent(s, m)
                 \/ EvictedBeforeRead(s, m)

\* A subscribe has completed with three racing publishes returned.  One,
\* read after the subscribe frame, was stored before s was a member and is
\* neither replayed nor enqueued live: the two of another connection, the
\* first in progress when the subscribe frame was read, were stored after
\* it and are the replay.
C34_Witness ==
    \E s \in Conns :
        /\ SubscribeCompleted(s) /\ NeverOverflowed(s)
        /\ PublishesReturned(s)
        /\ \E m \in RacingMessages(s) :
              /\ m >= loc[s].op.since
              /\ EvictedBeforeRead(s, m)
              /\ m \notin ReplayOf(s) /\ ~HasLiveEvent(s, m)
              /\ \A e \in ReplayOf(s) :
                    /\ e \in RacingMessages(s)
                    /\ publisher[e] # publisher[m]
                    /\ ~HasLiveEvent(s, e)
              /\ ReplayOf(s) \cap loc[s].op.racing # {}

(* C35 *)

\* The messages enqueued on s as replay Events, and as live Events.
ReplayedTo(s) ==
    {enq[s][i].msg : i \in {k \in 1..Len(enq[s]) :
                                enq[s][k].type = "event" /\ ~enq[s][k].live}}

DeliveredLiveTo(s) ==
    {enq[s][i].msg : i \in {k \in 1..Len(enq[s]) :
                                enq[s][k].type = "event" /\ enq[s][k].live}}

\* C35: no message is enqueued on a subscriber both as a replay Event of
\* its subscribe and as a live Event.
C35_NoDuplicateDelivery ==
    \A s \in Conns : ReplayedTo(s) \cap DeliveredLiveTo(s) = {}

(* C36 *)

\* The step enqueues a live Event for topic n on s.
EnqueuesLiveEventFor(s, n) ==
    /\ Len(enq'[s]) = Len(enq[s]) + 1
    /\ enq'[s][Len(enq'[s])].type = "event"
    /\ enq'[s][Len(enq'[s])].live
    /\ enq'[s][Len(enq'[s])].topic = n

\* s is a subscriber of the topic registered under n.
SubscribedToRegistered(s, n) ==
    /\ engTopics[n] # 0
    /\ tSubs[engTopics[n]][clientID[s]] = s

\* C36: once the Info "topic_deleted" for topic T is enqueued on s, no
\* live Event for T is enqueued on s, unless s is a subscriber of the topic
\* now registered as T (T was created again and s subscribed to it).
C36_NoEventAfterTopicDeleted ==
    [][\A s \in Conns : \A n \in TopicNames :
          (DeletedInfos(s, n) # {} /\ EnqueuesLiveEventFor(s, n))
             => SubscribedToRegistered(s, n)]_vars

(* C37 *)

\* The step is the AddSubscriber of the subscribe that connection x serves.
AddsSubscriberFor(x) ==
    /\ loc[x].pc = "sub_add"
    /\ loc'[x].pc = "sub_addtopic"

\* C37: the subscribe that connection x serves adds the subscriber of x,
\* the one its Ack and its replay are enqueued on, to the subscriber map of
\* the topic.
C37_SubscribeAddsOwnSubscriber ==
    [][\A x \in Conns :
          AddsSubscriberFor(x) => tSubs'[loc[x].tref][clientID[x]] = x]_vars

\* The same for a connection that is the one registered under its client
\* id when its subscribe looks the client up.
C37_SubscribeAddsRegisteredSubscriber ==
    [][\A x \in Conns :
          (AddsSubscriberFor(x) /\ loc[x].sref = x)
             => tSubs'[loc[x].tref][clientID[x]] = x]_vars

(* C38 *)

\* C38: once Shutdown has returned, every subscriber in the client
\* registry is closed.
C38_RegisteredClosedAfterShutdown ==
    sdpc = "done" => \A s \in Registered : closed[s]

(* C39 *)

\* Two peers publish at the same time, one of them twice, to a topic one
\* of them has subscribed to; neither reads from its socket.
OrderScenarios ==
    { Unread(Scenario(<<<<Subscribe("orders", 0), Publish("orders")>>,
                        <<Publish("orders"), Publish("orders")>>>>, 0, 0),
             Conns) }

OrderSpec == InitOf(WriteLoopScenarios \cup OrderScenarios) /\ [][Next]_vars

\* The messages of the live Events of topic n among the frames fs, in the
\* order of fs.
IsLiveEventOf(n, f) == f.type = "event" /\ f.live /\ f.topic = n

LiveMessages(fs, n) ==
    LET RECURSIVE Msgs(_)
        Msgs(q) == IF q = <<>> THEN <<>>
                   ELSE IF IsLiveEventOf(n, Head(q))
                        THEN <<Head(q).msg>> \o Msgs(Tail(q))
                        ELSE Msgs(Tail(q))
    IN  Msgs(fs)

\* The messages of one publisher appear in ms in the order in which the
\* publisher sent them: a connection's message ids grow with its frames.
InPublishOrder(ms) ==
    \A i, j \in 1..Len(ms) :
        (i < j /\ publisher[ms[i]] = publisher[ms[j]]) => ms[i] < ms[j]

\* C39: the messages one connection publishes one after another to a topic
\* are enqueued on every subscriber in publish order (in the log of its
\* channel, in the channel's buffer and in what is written to its peer),
\* and are appended to the topic history in that order, whatever other
\* connections publish.
C39_PerPublisherOrder ==
    /\ \A o \in TopicObjs :
          /\ InPublishOrder(pubLog[o])
          /\ InPublishOrder(GetLast(o, ringBufferSize))
    /\ \A s \in Conns : \A n \in TopicNames :
          /\ InPublishOrder(LiveMessages(enq[s], n))
          /\ InPublishOrder(LiveMessages(queue[s], n))
          /\ InPublishOrder(LiveMessages(written[s], n))

\* A subscriber has been enqueued two messages of one publisher with a
\* message of another publisher between them, and the history holds the
\* three in another order.
C39_Witness ==
    \E s \in Conns : \E o \in TopicObjs :
        LET ms == LiveMessages(enq[s], tName[o]) IN
        /\ Len(ms) = 3
        /\ publisher[ms[1]] = publisher[ms[3]]
        /\ publisher[ms[2]] # publisher[ms[1]]
        /\ Len(pubLog[o]) = 3
        /\ pubLog[o] # ms

====
